---- MODULE Spec2Model ----
(***************************************************************************)
(* Model of the middle-end of the worth compiler: the macro expander and   *)
(* the control-flow resolver of src/src/preprocessor.rs, operating on the  *)
(* flat instruction array built by src/src/parser.rs.                      *)
(*                                                                         *)
(* Instruction pointers are 0-based as in the code; TLA+ sequences are     *)
(* 1-based, so the instruction with pointer i is instructions[i + 1].      *)
(***************************************************************************)
EXTENDS Integers, Sequences, FiniteSets, TLC

VARIABLES
    instructions,   \* Program.instructions
    macros,         \* Program.macros : name -> Macro
    collect,        \* collect_macros: macro_body, macro_name, macro_stack, in_macro
    expand,         \* expand_macros: macro_stack, has_expanded, new_instructions,
                    \*                in_macro
    jump_stack,     \* jumps: the stack of open block frames
    elifs,          \* jumps: the pending converge slots of Elif instructions
    ip,             \* index of the next instruction of the for loop that runs
    depth,          \* process: the pass counter of the expansion loop
    passes,         \* number of calls of expand_macros made by process
    pc,             \* the stage of the pipeline that runs next
    result,         \* "none" while running, then "Ok", an error kind or "panic"
    detail,         \* the payload of the error (the text of UnexpectedKeyword)
    runs,           \* number of calls of jumps on this array
    first,          \* the instruction array as the first call of jumps left it
    expanded,       \* the names expand_macros has replaced by a macro body
    files,          \* the files of the directory of the program: name -> file
    frames,         \* includes: the locals of the nested calls, innermost last
    origin,         \* the instruction array as the parser built it
    cause,          \* the branch of includes that raised its error
    type_stack,     \* typecheck: its local `stack` of symbolic types, top last
    snapshots,      \* typecheck: the (stack, keyword) pairs of the open blocks
    arms,           \* the stacks with which the walk left the arms of each block
    stacks,         \* the stack typecheck held on entering each instruction
    state,          \* simulate: its SimulationState (stack and ip)
    stage,          \* the function of the pipeline that was called last
    unsafe          \* Cli.unsafe_: typechecking is disabled

vars == <<instructions, macros, collect, expand, jump_stack, elifs, ip, depth,
          passes, pc, result, detail, runs, first, expanded, files, frames,
          origin, cause, type_stack, snapshots,
          arms, stacks, state, stage, unsafe>>

\* the variables of include resolution
inclVars == <<files, frames, origin, cause>>

\* the locals of typecheck
typeVars == <<type_stack, snapshots, arms, stacks>>

\* the state of simulate, and the call the program is in
simVars == <<state, stage, unsafe>>

----------------------------------------------------------------------------
(* Bounds of the model *)

\* longest keyword sequence enumerated exhaustively as input of jumps
MaxLen == 4
\* longest macro body enumerated exhaustively
MaxBodyLen == 2
\* longest main part (the instructions after the macro definitions)
MaxMainLen == 1
\* largest array an expansion pass may build; a larger one leaves the model
MaxInstructions == 12
\* longest main program enumerated exhaustively as input of includes
MaxIncludeLen == 3
\* longest instruction sequence enumerated exhaustively as input of typecheck
MaxTypeLen == 3
\* longest arm of the blocks given to typecheck
MaxArmLen == 1
\* longest straight source handed to the pipeline
MaxSimLen == 3
\* simulate is followed while its stack holds at most this many values
MaxSimStack == 3

(* Program constants *)

\* the cap of the expansion loop: `if depth >= 100`
MaxMacroDepth == 100

----------------------------------------------------------------------------
(* Instruction model *)

\* Option<usize>::None
None == -1

\* A token of the source: the kind of instruction it becomes and its payload
\* (the identifier of a Name; "" otherwise).
Tok(k) == [kind |-> k, arg |-> ""]
NameTok(n) == [kind |-> "Name", arg |-> n]

\* parser::parse: one instruction per token, ip 0; Keyword::from_str gives
\* every jump slot the value 0 and while_ip the value None.  loc is the
\* position of the token in its source.
ParseToken(tok, p) ==
    [kind |-> tok.kind, arg |-> tok.arg, loc |-> p, ip |-> 0,
     self_ip |-> 0, end_ip |-> 0, while_ip |-> None]

Parse(source) == [p \in 1..Len(source) |-> ParseToken(source[p], p)]

\* the kinds of keyword that own jump slots
SlotKinds == {"While", "Do", "Elif", "Else", "End"}

----------------------------------------------------------------------------
(* jumps: references to jump slots and block frames *)

\* Option<&mut usize>: a reference to the slot `field` of instruction `at`
NoRef == [at |-> None, field |-> "none"]
Ref(at, field) == [at |-> at, field |-> field]

\* *r
Deref(instrs, r) == instrs[r.at + 1][r.field]
\* *r = v
Store(instrs, r, v) == [instrs EXCEPT ![r.at + 1][r.field] = v]

\* the tuple pushed on jump_stack
Frame(t, slot, while_ref, last_ip, last_last_ip) ==
    [t |-> t, slot |-> slot, while_ip |-> while_ref,
     last_ip |-> last_ip, last_last_ip |-> last_last_ip]

Top(stack) == stack[Len(stack)]
Pop(stack) == SubSeq(stack, 1, Len(stack) - 1)

kw_str(kw) ==
    CASE kw = "whiledo" -> "while ... do"
      [] kw = "ifdo" -> "if ... do"
      [] kw = "elifdo" -> "elif ... do"
      [] OTHER -> kw

\* the outcome of one iteration of the for loop of jumps
JCont(instrs, stack, el) ==
    [instructions |-> instrs, jump_stack |-> stack, elifs |-> el,
     result |-> "none", detail |-> <<>>]
\* err!(program, PreprocessorError(UnexpectedKeyword(..)), ..): return Err
JErr(instrs, stack, el, kw, following) ==
    [instructions |-> instrs, jump_stack |-> stack, elifs |-> el,
     result |-> "UnexpectedKeyword", detail |-> <<kw, "following", following>>]
\* Option::unwrap on None: the thread panics
JPanic(instrs, stack, el) ==
    [instructions |-> instrs, jump_stack |-> stack, elifs |-> el,
     result |-> "panic", detail |-> <<>>]

\* `**elif = *self_ip` for every reference of elifs
RECURSIVE PatchElifs(_, _, _)
PatchElifs(instrs, el, v) ==
    IF el = <<>> THEN instrs
    ELSE PatchElifs(Store(instrs, Head(el), v), Tail(el), v)

\* an assignment of ip that also overwrites the location
SetIpAndLoc(instrs, i) == [instrs EXCEPT ![i + 1].ip = i, ![i + 1].loc = i]

\* instruction.ip = ip, the first statement of the loop body
SetIp(instrs, i) == [instrs EXCEPT ![i + 1].ip = i]

JumpsIf(instrs, stack, el, i) ==
    JCont(instrs, Append(stack, Frame("if", NoRef, NoRef, i, None)), el)

JumpsElifStale(instrs, stack, el, i) ==
    IF stack = <<>> THEN JPanic(instrs, stack, el)
    ELSE LET f == Top(stack)
             rest == Pop(stack)
         IN IF f.t \notin {"ifdo", "elifdo"}
            THEN JErr([instrs EXCEPT ![i + 1].self_ip = i], rest, el,
                      "elif", kw_str(f.t))
            ELSE IF f.slot = NoRef THEN JPanic(instrs, rest, el)
            ELSE JCont([Store(instrs, f.slot, instrs[i + 1].self_ip)
                            EXCEPT ![i + 1].self_ip = i],
                       Append(rest, Frame("elif", NoRef, NoRef, i, f.last_ip)),
                       Append(el, Ref(i, "end_ip")))

JumpsElif(instrs, stack, el, i) ==
    IF stack = <<>> THEN JPanic(instrs, stack, el)
    ELSE LET f == Top(stack)
             rest == Pop(stack)
             ins == [instrs EXCEPT ![i + 1].self_ip = i]
         IN IF f.t \notin {"ifdo", "elifdo"}
            THEN JErr(ins, rest, el, "elif", kw_str(f.t))
            ELSE IF f.slot = NoRef THEN JPanic(ins, rest, el)
            ELSE JCont(Store(ins, f.slot, ins[i + 1].self_ip),
                       Append(rest, Frame("elif", NoRef, NoRef, i, f.last_ip)),
                       Append(el, Ref(i, "end_ip")))

JumpsElsePastElse(instrs, stack, el, i) ==
    IF stack = <<>> THEN JPanic(instrs, stack, el)
    ELSE LET f == Top(stack)
             rest == Pop(stack)
             ins == [instrs EXCEPT ![i + 1].self_ip = i]
         IN IF f.t \notin {"ifdo", "elifdo"}
            THEN JErr(ins, rest, el, "else", kw_str(f.t))
            ELSE IF f.slot = NoRef THEN JPanic(ins, rest, el)
            ELSE JCont(Store(ins, f.slot, ins[i + 1].self_ip + 1),
                       Append(rest, Frame("else", Ref(i, "end_ip"), NoRef,
                                          i, f.last_ip)),
                       el)

JumpsElse(instrs, stack, el, i) ==
    IF stack = <<>> THEN JPanic(instrs, stack, el)
    ELSE LET f == Top(stack)
             rest == Pop(stack)
             ins == [instrs EXCEPT ![i + 1].self_ip = i]
         IN IF f.t \notin {"ifdo", "elifdo"}
            THEN JErr(ins, rest, el, "else", kw_str(f.t))
            ELSE IF f.slot = NoRef THEN JPanic(ins, rest, el)
            ELSE JCont(Store(ins, f.slot, ins[i + 1].self_ip),
                       Append(rest, Frame("else", Ref(i, "end_ip"), NoRef,
                                          i, f.last_ip)),
                       el)

\* an End that patches and clears elifs behind an ifdo frame as well
JumpsEndClearsBehindIf(instrs, stack, el, i) ==
    IF stack = <<>> THEN JPanic(instrs, stack, el)
    ELSE LET f == Top(stack)
             rest == Pop(stack)
             ins == [instrs EXCEPT ![i + 1].self_ip = i]
             self == ins[i + 1].self_ip
         IN CASE f.t \in {"else", "ifdo", "elifdo"} ->
                   IF f.slot = NoRef THEN JPanic(ins, rest, el)
                   ELSE JCont(PatchElifs(Store(ins, f.slot, self), el, self),
                              rest, <<>>)
              [] f.t = "whiledo" ->
                   LET w == IF f.while_ip = NoRef THEN None
                            ELSE Deref(ins, f.while_ip)
                       ins2 == [ins EXCEPT ![i + 1].while_ip = w]
                   IN IF f.slot = NoRef THEN JPanic(ins2, rest, el)
                      ELSE JCont(Store(ins2, f.slot, self), rest, el)
              [] OTHER -> JErr(ins, rest, el, "end", f.t)

\* an End that closes a block whatever frame is on top
JumpsEndAnyFrame(instrs, stack, el, i) ==
    IF stack = <<>> THEN JPanic(instrs, stack, el)
    ELSE LET f == Top(stack)
             rest == Pop(stack)
             ins == [instrs EXCEPT ![i + 1].self_ip = i]
             self == ins[i + 1].self_ip
         IN CASE f.t \in {"else", "elifdo"} ->
                   IF f.slot = NoRef THEN JPanic(ins, rest, el)
                   ELSE JCont(PatchElifs(Store(ins, f.slot, self), el, self),
                              rest, <<>>)
              [] f.t = "ifdo" ->
                   IF f.slot = NoRef THEN JPanic(ins, rest, el)
                   ELSE JCont(Store(ins, f.slot, self), rest, el)
              [] f.t = "whiledo" ->
                   LET w == IF f.while_ip = NoRef THEN None
                            ELSE Deref(ins, f.while_ip)
                       ins2 == [ins EXCEPT ![i + 1].while_ip = w]
                   IN IF f.slot = NoRef THEN JPanic(ins2, rest, el)
                      ELSE JCont(Store(ins2, f.slot, self), rest, el)
              [] OTHER -> JCont(ins, rest, el)

JumpsEnd(instrs, stack, el, i) ==
    IF stack = <<>> THEN JPanic(instrs, stack, el)
    ELSE LET f == Top(stack)
             rest == Pop(stack)
             ins == [instrs EXCEPT ![i + 1].self_ip = i]
             self == ins[i + 1].self_ip
         IN CASE f.t = "else" ->
                   IF f.slot = NoRef THEN JPanic(ins, rest, el)
                   ELSE JCont(PatchElifs(Store(ins, f.slot, self), el, self),
                              rest, <<>>)
              [] f.t = "ifdo" ->
                   IF f.slot = NoRef THEN JPanic(ins, rest, el)
                   ELSE JCont(Store(ins, f.slot, self), rest, el)
              [] f.t = "whiledo" ->
                   LET w == IF f.while_ip = NoRef THEN None
                            ELSE Deref(ins, f.while_ip)
                       ins2 == [ins EXCEPT ![i + 1].while_ip = w]
                   IN IF f.slot = NoRef THEN JPanic(ins2, rest, el)
                      ELSE JCont(Store(ins2, f.slot, self), rest, el)
              [] f.t = "elifdo" ->
                   IF f.slot = NoRef THEN JPanic(ins, rest, el)
                   ELSE JCont(PatchElifs(Store(ins, f.slot, self), el, self),
                              rest, <<>>)
              [] OTHER -> JErr(ins, rest, el, "end", f.t)

JumpsWhile(instrs, stack, el, i) ==
    JCont([instrs EXCEPT ![i + 1].self_ip = i],
          Append(stack, Frame("while", Ref(i, "self_ip"), NoRef, i, None)),
          el)

JumpsDoNoHead(instrs, stack, el, i) ==
    IF stack = <<>> THEN JPanic(instrs, stack, el)
    ELSE LET f == Top(stack)
             rest == Pop(stack)
         IN CASE f.t = "if" ->
                   JCont(instrs,
                         Append(rest, Frame("ifdo", Ref(i, "end_ip"), NoRef,
                                            i, f.last_ip)), el)
              [] f.t = "elif" ->
                   JCont(instrs,
                         Append(rest, Frame("elifdo", Ref(i, "end_ip"), NoRef,
                                            i, f.last_ip)), el)
              [] f.t = "while" ->
                   JCont(instrs,
                         Append(rest, Frame("whiledo", Ref(i, "end_ip"), NoRef,
                                            i, f.last_ip)), el)
              [] OTHER -> JErr(instrs, rest, el, "do", kw_str(f.t))

JumpsDo(instrs, stack, el, i) ==
    IF stack = <<>> THEN JPanic(instrs, stack, el)
    ELSE LET f == Top(stack)
             rest == Pop(stack)
         IN CASE f.t = "if" ->
                   JCont(instrs,
                         Append(rest, Frame("ifdo", Ref(i, "end_ip"), NoRef,
                                            i, f.last_ip)), el)
              [] f.t = "elif" ->
                   JCont(instrs,
                         Append(rest, Frame("elifdo", Ref(i, "end_ip"), NoRef,
                                            i, f.last_ip)), el)
              [] f.t = "while" ->
                   JCont(instrs,
                         Append(rest, Frame("whiledo", Ref(i, "end_ip"), f.slot,
                                            i, f.last_ip)), el)
              [] OTHER -> JErr(instrs, rest, el, "do", kw_str(f.t))

\* the `_ => {}` arm: every instruction that is not one of the six keywords
JumpsOther(instrs, stack, el, i) == JCont(instrs, stack, el)

\* the value jumps returns when the for loop has visited every instruction
JumpsReturn(stack) == "Ok"

----------------------------------------------------------------------------
(* collect_macros *)

\* String::new(): the name of a macro whose definition has no Name yet
NoName == ""

\* HashMap::insert: a later definition of the same name replaces the earlier
MacroInsert(ms, name, m) == (name :> m) @@ ms

\* the locals of collect_macros before the loop
CollectStart ==
    [macro_body |-> <<>>, macro_name |-> NoName, macro_stack |-> <<>>,
     in_macro |-> FALSE]

\* the code after the match: `if in_macro { macro_body.push(..) }`
CollectTail(inst, st) ==
    IF st.in_macro
    THEN [st EXCEPT !.macro_body = Append(@, inst)]
    ELSE st

\* one iteration of the loop of collect_macros, on instruction inst at index i
CollectStep(inst, i, st) ==
    CASE inst.kind = "Macro" ->
           [st EXCEPT !.macro_stack = Append(@, <<"macro", i>>),
                      !.in_macro = TRUE]
      [] inst.kind = "Name" ->
           IF st.in_macro /\ st.macro_name = NoName
           THEN [st EXCEPT !.macro_name = inst.arg]
           ELSE CollectTail(inst, st)
      [] inst.kind = "End" ->
           IF st.macro_stack = <<>> THEN [st EXCEPT !.result = "panic"]
           ELSE LET f == Top(st.macro_stack)
                    popped == [st EXCEPT !.macro_stack = Pop(@)]
                IN IF f[1] = "macro"
                   THEN IF st.in_macro
                        THEN [popped EXCEPT
                                !.in_macro = FALSE,
                                !.macros = MacroInsert(@, st.macro_name,
                                    [name |-> st.macro_name,
                                     body |-> st.macro_body,
                                     loc |-> <<f[2], i>>]),
                                !.macro_name = NoName,
                                !.macro_body = <<>>]
                        ELSE [popped EXCEPT !.result = "UnexpectedMacroEnd"]
                   ELSE CollectTail(inst, popped)
      [] inst.kind = "If" ->
           CollectTail(inst, [st EXCEPT !.macro_stack = Append(@, <<"if", i>>)])
      [] inst.kind = "Elif" ->
           CollectTail(inst, [st EXCEPT !.macro_stack = Append(@, <<"elif", i>>)])
      [] inst.kind = "Else" ->
           CollectTail(inst, [st EXCEPT !.macro_stack = Append(@, <<"else", i>>)])
      [] inst.kind = "While" ->
           CollectTail(inst, [st EXCEPT !.macro_stack = Append(@, <<"while", i>>)])
      [] inst.kind = "Do" ->
           IF st.macro_stack = <<>> THEN [st EXCEPT !.result = "panic"]
           ELSE CollectTail(inst,
                    [st EXCEPT !.macro_stack = Append(Pop(@), <<"do", i>>)])
      [] OTHER -> CollectTail(inst, st)

\* the locals that live across the iterations of the loop
CollectLocals(st) ==
    [macro_body |-> st.macro_body, macro_name |-> st.macro_name,
     macro_stack |-> st.macro_stack, in_macro |-> st.in_macro]

\* the locals together with program.macros and the outcome of the iteration
CollectState(locals, ms) ==
    [macro_body |-> locals.macro_body, macro_name |-> locals.macro_name,
     macro_stack |-> locals.macro_stack, in_macro |-> locals.in_macro,
     macros |-> ms, result |-> "none"]

\* the value collect_macros returns after the loop
CollectReturn(locals) == "Ok"

----------------------------------------------------------------------------
(* expand_macros *)

\* the locals of expand_macros with the flag of the pass already raised
ExpandStartRaised ==
    [macro_stack |-> <<>>, has_expanded |-> TRUE, new_instructions |-> <<>>,
     in_macro |-> FALSE, result |-> "none"]

\* the locals of expand_macros before the loop
ExpandStart ==
    [macro_stack |-> <<>>, has_expanded |-> FALSE, new_instructions |-> <<>>,
     in_macro |-> FALSE, result |-> "none"]

\* the locals that live across the iterations of the loop
ExpandLocals(st) == [st EXCEPT !.result = "none"]

\* the code after the match: `if !in_macro { new_instructions.push(..) }`
ExpandTail(inst, st) ==
    IF ~st.in_macro
    THEN [st EXCEPT !.new_instructions = Append(@, inst)]
    ELSE st

\* `let _ = macro_stack.pop().unwrap(); macro_stack.push(kind)`
ExpandReplace(inst, st, kind) ==
    IF st.macro_stack = <<>> THEN [st EXCEPT !.result = "panic"]
    ELSE ExpandTail(inst, [st EXCEPT !.macro_stack = Append(Pop(@), kind)])

\* `if !in_macro { if let Some(macro_) = program.macros.get(name)`
Invokes(inst, ms, st) ==
    inst.kind = "Name" /\ ~st.in_macro /\ inst.arg \in DOMAIN ms

\* one iteration of the loop of expand_macros that substitutes the body and
\* leaves has_expanded alone
ExpandStepNoFlag(inst, ms, st) ==
    CASE inst.kind = "Macro" ->
           [st EXCEPT !.macro_stack = Append(@, "macro"), !.in_macro = TRUE]
      [] inst.kind = "Name" ->
           IF Invokes(inst, ms, st)
           THEN [st EXCEPT !.new_instructions = @ \o ms[inst.arg].body]
           ELSE ExpandTail(inst, st)
      [] inst.kind = "While" ->
           ExpandTail(inst, [st EXCEPT !.macro_stack = Append(@, "while")])
      [] inst.kind = "Do" -> ExpandReplace(inst, st, "do")
      [] inst.kind = "If" ->
           ExpandTail(inst, [st EXCEPT !.macro_stack = Append(@, "if")])
      [] inst.kind = "Elif" -> ExpandReplace(inst, st, "elif")
      [] inst.kind = "Else" -> ExpandReplace(inst, st, "else")
      [] inst.kind = "End" ->
           IF st.macro_stack = <<>> THEN [st EXCEPT !.result = "panic"]
           ELSE LET kind == Top(st.macro_stack)
                    popped == [st EXCEPT !.macro_stack = Pop(@)]
                IN IF kind = "macro" /\ st.in_macro
                   THEN [popped EXCEPT !.in_macro = FALSE]
                   ELSE ExpandTail(inst, popped)
      [] OTHER -> ExpandTail(inst, st)

\* one iteration of the loop of expand_macros
ExpandStep(inst, ms, st) ==
    CASE inst.kind = "Macro" ->
           [st EXCEPT !.macro_stack = Append(@, "macro"), !.in_macro = TRUE]
      [] inst.kind = "Name" ->
           IF Invokes(inst, ms, st)
           THEN [st EXCEPT !.new_instructions = @ \o ms[inst.arg].body,
                           !.has_expanded = TRUE]
           ELSE ExpandTail(inst, st)
      [] inst.kind = "While" ->
           ExpandTail(inst, [st EXCEPT !.macro_stack = Append(@, "while")])
      [] inst.kind = "Do" -> ExpandReplace(inst, st, "do")
      [] inst.kind = "If" ->
           ExpandTail(inst, [st EXCEPT !.macro_stack = Append(@, "if")])
      [] inst.kind = "Elif" -> ExpandReplace(inst, st, "elif")
      [] inst.kind = "Else" -> ExpandReplace(inst, st, "else")
      [] inst.kind = "End" ->
           IF st.macro_stack = <<>> THEN [st EXCEPT !.result = "panic"]
           ELSE LET kind == Top(st.macro_stack)
                    popped == [st EXCEPT !.macro_stack = Pop(@)]
                IN IF kind = "macro" /\ st.in_macro
                   THEN [popped EXCEPT !.in_macro = FALSE]
                   ELSE ExpandTail(inst, popped)
      [] OTHER -> ExpandTail(inst, st)

\* the test of the pass counter with a strict comparison
DepthExceededStrict(d) == d > MaxMacroDepth

\* the test of the pass counter in the loop of process
DepthExceeded(d) == d >= MaxMacroDepth

\* an ips that counts the instructions from one
ipsFromOne(instrs) == [i \in 1..Len(instrs) |-> [instrs[i] EXCEPT !.ip = i]]

\* ips(&mut program)
ips(instrs) == [i \in 1..Len(instrs) |-> [instrs[i] EXCEPT !.ip = i - 1]]

----------------------------------------------------------------------------
(* here and includes *)

\* the cap of the recursion of includes: `if depth > 100`
MaxIncludeDepth == 100

\* a string literal of the source: Push(Value::Str(s))
StrTok(s) == [kind |-> "PushStr", arg |-> s]

\* loc.0 + ":" + loc.1 + ":" + loc.2, the text that replaces `here`
HereText(loc) == ToString(loc)

\* here(&mut program): every Intrinsic::Here becomes the Push of its location
here(instrs) ==
    [i \in DOMAIN instrs |->
        IF instrs[i].kind = "Here"
        THEN [instrs[i] EXCEPT !.kind = "PushStr", !.arg = HereText(instrs[i].loc)]
        ELSE instrs[i]]

\* the file system as includes sees it: include_path.exists() and
\* std::fs::read_to_string(include_path)
Exists(fs, path) == path \in DOMAIN fs
Readable(fs, path) == fs[path].readable

\* the locals of one call of includes on the array instrs.  phase is the
\* position of the call in the function: "enter" before the test of depth,
\* "scan" in the loop that collects the includes, "append" in the loop that
\* reads the included files.
IncludeFrame(instrs) ==
    [instructions |-> instrs, phase |-> "enter", pos |-> 0,
     include_paths |-> <<>>, inst_to_remove |-> <<>>, next |-> 1]

\* the test of the depth with the cap itself refused
IncludeDepthExceededAtCap(d) == d >= MaxIncludeDepth

\* the test of the depth at the head of includes
IncludeDepthExceeded(d) == d > MaxIncludeDepth

\* one iteration of the loop that collects the includes: the frame after it.
\* An Include takes the instruction behind it as its argument.
IncludesScanStep(f) ==
    LET inst == f.instructions[f.pos + 1]
    IN IF inst.kind # "Include"
       THEN [frame |-> [f EXCEPT !.pos = @ + 1], result |-> "none", detail |-> <<>>]
       ELSE LET g == [f EXCEPT !.inst_to_remove = Append(@, f.pos)]
            IN IF f.pos + 1 >= Len(f.instructions)
               THEN [frame |-> [g EXCEPT !.pos = Len(f.instructions)],
                     result |-> "none", detail |-> <<>>]
               ELSE LET arg == f.instructions[f.pos + 2]
                    IN IF arg.kind = "PushStr"
                       THEN [frame |->
                               [g EXCEPT !.include_paths =
                                            Append(@, <<arg.arg, f.pos + 1>>),
                                         !.inst_to_remove =
                                            Append(@, f.pos + 1),
                                         !.pos = f.pos + 2],
                             result |-> "none", detail |-> <<>>]
                       ELSE [frame |-> g, result |-> "InvalidInclude",
                             detail |-> <<arg.kind>>]

\* Vec::remove(i)
RemoveAt(instrs, i) == SubSeq(instrs, 1, i) \o SubSeq(instrs, i + 2, Len(instrs))

\* `for ip in inst_to_remove { program.instructions.remove(ip - offset);
\* offset += 1; }`
RECURSIVE RemoveIncludes(_, _, _)
RemoveIncludes(instrs, to_remove, offset) ==
    IF to_remove = <<>> THEN instrs
    ELSE RemoveIncludes(RemoveAt(instrs, Head(to_remove) - offset),
                        Tail(to_remove), offset + 1)

\* the include paths of a frame that do not exist
MissingPaths(fs, f) ==
    {k \in DOMAIN f.include_paths : ~Exists(fs, f.include_paths[k][1])}

\* `program.instructions.append(&mut include_program.instructions)`
AppendIncluded(parent, child) ==
    [parent EXCEPT !.instructions = @ \o child.instructions, !.next = @ + 1]

----------------------------------------------------------------------------
(* Inputs: the source programs the model runs the pipeline on *)

SeqsUpTo(S, n) == UNION {[1..k -> S] : k \in 0..n}

\* identifiers of the source programs
A == "a"
B == "b"

Push == <<Tok("Push")>>

\* -- inputs of jumps: keyword sequences --
JumpKinds == {"If", "Elif", "Else", "End", "While", "Do", "Push"}
ShortPrograms == {[p \in DOMAIN s |-> Tok(s[p])] : s \in SeqsUpTo(JumpKinds, MaxLen)}

IfEnd(b) == <<Tok("If")>> \o Push \o <<Tok("Do")>> \o b \o <<Tok("End")>>
IfElse(b, c) ==
    <<Tok("If")>> \o Push \o <<Tok("Do")>> \o b \o <<Tok("Else")>> \o c
        \o <<Tok("End")>>
IfElif(b, c) ==
    <<Tok("If")>> \o Push \o <<Tok("Do")>> \o b \o <<Tok("Elif")>> \o Push
        \o <<Tok("Do")>> \o c \o <<Tok("End")>>
IfElifElse(b, c, d) ==
    <<Tok("If")>> \o Push \o <<Tok("Do")>> \o b \o <<Tok("Elif")>> \o Push
        \o <<Tok("Do")>> \o c \o <<Tok("Else")>> \o d \o <<Tok("End")>>
WhileEnd(b) == <<Tok("While")>> \o Push \o <<Tok("Do")>> \o b \o <<Tok("End")>>

\* the well-nested blocks whose bodies are taken from Bs
Blocks(Bs) ==
    {IfEnd(b) : b \in Bs} \cup {WhileEnd(b) : b \in Bs}
    \cup {IfElse(b, c) : b \in Bs, c \in Bs}
    \cup {IfElif(b, c) : b \in Bs, c \in Bs}
    \cup {IfElifElse(b, c, d) : b \in Bs, c \in Bs, d \in Bs}

Nest1 == Blocks({Push})
Nest2 == Blocks({Push} \cup Nest1)
\* two blocks in sequence, and a chain of three arms
Sequenced == {b \o c : b \in Nest1, c \in Nest1}
ThreeArms ==
    {<<Tok("If")>> \o Push \o <<Tok("Do")>> \o b \o <<Tok("Elif")>> \o Push
        \o <<Tok("Do")>> \o Push \o <<Tok("Elif")>> \o Push \o <<Tok("Do")>>
        \o Push \o e \o <<Tok("End")>>
     : b \in {Push} \cup Nest1, e \in {<<>>, <<Tok("Else")>> \o Push}}

JumpPrograms == ShortPrograms \cup Nest1 \cup Nest2 \cup Sequenced \cup ThreeArms

\* -- inputs of process: macro definitions followed by a main part --
MacroDef(n, body) == <<Tok("Macro"), NameTok(n)>> \o body \o <<Tok("End")>>

BodyTokens == {Tok("Push"), NameTok(A), NameTok(B)}
Bodies == SeqsUpTo(BodyTokens, MaxBodyLen)
Mains == SeqsUpTo(BodyTokens, MaxMainLen)
DefChoice(n) == {<<>>} \cup {MacroDef(n, b) : b \in Bodies}
MacroSources == {da \o db \o m : da \in DefChoice(A), db \in DefChoice(B), m \in Mains}

\* n macros, each invoking the next, and one invocation of the first
RECURSIVE ChainDefs(_, _)
ChainDefs(k, n) ==
    IF k > n THEN <<>>
    ELSE MacroDef(ToString(k), IF k < n THEN <<NameTok(ToString(k + 1))>> ELSE Push)
             \o ChainDefs(k + 1, n)
ChainSource(n) == ChainDefs(1, n) \o <<NameTok(ToString(1))>>
ChainSources == {ChainSource(n) : n \in {3, MaxMacroDepth, MaxMacroDepth + 1}}

\* macros whose bodies hold blocks, blocks around invocations, and sources
\* whose keywords do not nest
ControlSources ==
    {MacroDef(A, b) \o c \o <<NameTok(A)>> \o d
        : b \in Nest1, c \in {<<>>, <<Tok("While")>> \o Push \o <<Tok("Do")>>},
          d \in {<<>>, <<Tok("End")>>}}
    \cup {<<Tok("Macro"), NameTok(A), Tok("Macro"), NameTok(B), Tok("End")>> \o t
        : t \in {<<Tok("Else")>>, <<Tok("Elif")>>, <<Tok("End")>>, <<Tok("Do")>>}}
    \cup {MacroDef(A, Push) \o t
        : t \in {<<Tok("Else")>>, <<Tok("End")>>, <<Tok("If")>>,
                 <<Tok("If"), Tok("Do")>>, <<Tok("If"), Tok("Else")>>,
                 <<Tok("Do")>>, <<Tok("Macro"), NameTok(B)>> \o Push,
                 <<NameTok(A), Tok("Macro"), NameTok(B), NameTok(A)>>}}

Sources == MacroSources \cup ChainSources \cup ControlSources

\* -- inputs of includes: a directory of files and main programs over it --
File(readable, source) == [readable |-> readable, source |-> source]
Including(path) == <<Tok("Include"), StrTok(path)>>

\* a directory without files
NoFiles == <<>>
\* f is plain, g includes f between two instructions, u cannot be read, c
\* includes itself, d and e include each other, k includes itself and a file
\* that is missing; no file has the name x
IncludeFiles ==
    "f" :> File(TRUE, <<NameTok("f1")>>)
    @@ "g" :> File(TRUE, <<NameTok("g1")>> \o Including("f") \o <<NameTok("g2")>>)
    @@ "u" :> File(FALSE, <<>>)
    @@ "c" :> File(TRUE, <<NameTok("c1")>> \o Including("c"))
    @@ "d" :> File(TRUE, Including("e"))
    @@ "e" :> File(TRUE, Including("d") \o <<NameTok("e1")>>)
    @@ "k" :> File(TRUE, Including("k") \o Including("x"))

IncludeTokens ==
    {NameTok("m1"), Tok("Include"), Tok("Here"),
     StrTok("f"), StrTok("g"), StrTok("u"), StrTok("x")}
IncludeMains == SeqsUpTo(IncludeTokens, MaxIncludeLen)
\* main programs that reach a cycle of includes
CyclicMains ==
    {Including("c"), Including("d"), Including("k"),
     <<NameTok("m1")>> \o Including("c") \o <<NameTok("m2")>>,
     Including("f") \o Including("c"),
     Including("c") \o Including("x"),
     Including("c") \o <<Tok("Include"), NameTok("m1")>>}

\* main programs with a macro definition, an include and an invocation
MixedMains ==
    {MacroDef(A, Push) \o Including(path) \o <<NameTok(A)>>
        : path \in {"f", "g", "u", "x"}}

\* a main program and the directory it lies in
Inputs ==
    [source : Sources, files : {NoFiles}]
    \cup [source : IncludeMains \cup CyclicMains \cup MixedMains,
          files : {IncludeFiles}]

----------------------------------------------------------------------------
(* typecheck: the symbolic stack and the effect of one instruction *)

\* enum ValType
ValType == {"Int", "Char", "Ptr", "Bool"}

\* instructions that carry a payload typecheck reads: the type of the value
\* pushed, the operator, the intrinsic, the syscall
ValueTok(t) == [kind |-> "Push", arg |-> t]
OpTok(o) == [kind |-> "Op", arg |-> o]
IntrinsicTok(i) == [kind |-> "Intrinsic", arg |-> i]
SyscallTok(s) == [kind |-> "Syscall", arg |-> s]

\* blocks, closed or not, among instructions that carry a payload
PayloadPrograms ==
    {<<Tok("If"), ValueTok("Bool"), Tok("Do"), OpTok("Add"), Tok("Else"),
       IntrinsicTok("Print"), Tok("End"), SyscallTok("Syscall1"), NameTok("n")>>,
     <<Tok("While"), ValueTok("Int"), Tok("Do"), NameTok("n"), Tok("End"),
       IntrinsicTok("Drop")>>,
     <<Tok("If"), ValueTok("Bool"), Tok("Do"), OpTok("Add"), Tok("End"),
       Tok("If"), IntrinsicTok("Print"), Tok("End")>>,
     <<Tok("While"), ValueTok("Int"), Tok("Do"), SyscallTok("Syscall1"),
       Tok("Else"), NameTok("n")>>,
     <<ValueTok("Int"), IntrinsicTok("Print"), Tok("End"), OpTok("Add")>>,
     <<Tok("If"), ValueTok("Bool"), Tok("Do"), NameTok("n")>>}

\* the stack of typecheck and the error it returns, "none" while it goes on
Typed(st) == [stack |-> st, found |-> <<>>, err |-> "none"]
TypeError(r, kind) == [r EXCEPT !.err = kind]

\* stack.push(t), for each t of ts in turn
PushTypes(r, ts) == IF r.err # "none" THEN r ELSE [r EXCEPT !.stack = @ \o ts]

\* an expect! that pops and leaves the type unchecked
ExpectAnyType(r, allowed) ==
    IF r.err # "none" THEN r
    ELSE IF r.stack = <<>> THEN TypeError(r, "StackUnderflow")
    ELSE [stack |-> Pop(r.stack), found |-> Append(r.found, Top(r.stack)),
          err |-> "none"]

\* expect!((t1, t2, ..)): pop!(), which fails with StackUnderflow on an empty
\* stack, then InvalidTypeForOp unless the type popped is one of `allowed`
Expect(r, allowed) ==
    IF r.err # "none" THEN r
    ELSE IF r.stack = <<>> THEN TypeError(r, "StackUnderflow")
    ELSE IF Top(r.stack) \notin allowed THEN TypeError(r, "InvalidTypeForOp")
    ELSE [stack |-> Pop(r.stack), found |-> Append(r.found, Top(r.stack)),
          err |-> "none"]

\* pop!()
PopType(r) == Expect(r, ValType)

\* require!(num): StackUnderflow when fewer than num types are on the stack,
\* else num pops
Require(r, num) ==
    IF Len(r.stack) < num THEN TypeError(r, "StackUnderflow")
    ELSE [r EXCEPT !.stack = SubSeq(@, 1, Len(@) - num)]

\* `match (a, b)` of a binary operator: the row of the table for the two
\* types found, a the first popped; InvalidTypeForOp when there is no row
MatchPair(r, table) ==
    IF r.err # "none" THEN r
    ELSE IF \E row \in table : row[1] = r.found[1] /\ row[2] = r.found[2]
         THEN LET row == CHOOSE row \in table :
                            row[1] = r.found[1] /\ row[2] = r.found[2]
              IN PushTypes(r, <<row[3]>>)
         ELSE TypeError(r, "InvalidTypeForOp")

\* an addition that has no row for two Ints
AddTableWithoutInts ==
    {<<"Int", "Ptr", "Ptr">>, <<"Ptr", "Int", "Ptr">>,
     <<"Char", "Int", "Char">>, <<"Int", "Char", "Int">>,
     <<"Int", "Bool", "Int">>, <<"Bool", "Int", "Int">>}

AddTable ==
    {<<"Int", "Int", "Int">>, <<"Int", "Ptr", "Ptr">>, <<"Ptr", "Int", "Ptr">>,
     <<"Char", "Int", "Char">>, <<"Int", "Char", "Int">>,
     <<"Int", "Bool", "Int">>, <<"Bool", "Int", "Int">>}
SubTable == AddTable \ {<<"Int", "Ptr", "Ptr">>}
BitwiseTable ==
    {<<"Int", "Bool", "Int">>, <<"Bool", "Int", "Int">>,
     <<"Bool", "Bool", "Bool">>, <<"Int", "Char", "Int">>,
     <<"Char", "Int", "Int">>, <<"Char", "Char", "Char">>,
     <<"Char", "Bool", "Char">>, <<"Bool", "Char", "Char">>,
     <<"Int", "Int", "Int">>}
EqTable ==
    {<<a, b, "Bool">> : a, b \in ValType} \
        {<<"Char", "Ptr", "Bool">>, <<"Ptr", "Char", "Bool">>,
         <<"Ptr", "Bool", "Bool">>, <<"Bool", "Ptr", "Bool">>}
OrderTable ==
    {<<"Int", "Int", "Bool">>, <<"Ptr", "Ptr", "Bool">>,
     <<"Char", "Char", "Bool">>, <<"Char", "Int", "Bool">>,
     <<"Int", "Char", "Bool">>}
ModTable ==
    {<<"Int", "Int", "Int">>, <<"Char", "Char", "Char">>,
     <<"Char", "Int", "Char">>, <<"Int", "Char", "Int">>,
     <<"Ptr", "Int", "Ptr">>, <<"Ptr", "Char", "Ptr">>}

\* InstructionKind::Push(val)
TypecheckValue(st, val) ==
    IF val.kind = "PushStr" THEN PushTypes(Typed(st), <<"Int", "Ptr">>)
    ELSE PushTypes(Typed(st), <<val.arg>>)

\* InstructionKind::Op(op)
TypecheckOp(st, op) ==
    LET r == Typed(st)
        all == ValType
        scalar == {"Int", "Char", "Bool"}
        ordered == {"Int", "Ptr", "Char"}
        ints == Expect(Expect(r, {"Int"}), {"Int"})
    IN CASE op = "Add" -> MatchPair(Expect(Expect(r, all), all), AddTable)
         [] op = "Sub" -> MatchPair(Expect(Expect(r, all), all), SubTable)
         [] op \in {"Mul", "Div", "Shl", "Shr"} -> PushTypes(ints, <<"Int">>)
         [] op = "DivMod" -> PushTypes(ints, <<"Int", "Int">>)
         [] op \in {"BitwiseAnd", "BitwiseOr", "BitwiseXor"} ->
                MatchPair(Expect(Expect(r, scalar), scalar), BitwiseTable)
         [] op = "BitwiseNot" ->
                LET t == Expect(r, {"Int", "Bool"})
                IN IF t.err # "none" THEN t ELSE PushTypes(t, t.found)
         [] op \in {"Eq", "Neq"} ->
                MatchPair(Expect(Expect(r, all), all), EqTable)
         [] op \in {"Lt", "Gt", "Lte", "Gte"} ->
                MatchPair(Expect(Expect(r, ordered), ordered), OrderTable)
         [] op \in {"Store", "Store64"} -> Expect(Expect(r, scalar), {"Ptr"})
         [] op \in {"Load", "Load64"} ->
                PushTypes(Expect(r, {"Ptr"}), <<"Int">>)
         [] op = "Mod" ->
                MatchPair(Expect(Expect(r, ordered), {"Int", "Char"}), ModTable)

\* InstructionKind::Intrinsic(i)
TypecheckIntrinsic(st, i) ==
    LET r == Typed(st)
        one == PopType(r)
        two == PopType(one)
        a == two.found[1]
        b == two.found[2]
    IN CASE i = "Argc" -> PushTypes(r, <<"Int">>)
         [] i = "Argv" -> PushTypes(r, <<"Ptr">>)
         [] i = "Print" -> Require(r, 1)
         [] i = "Panic" -> Require(r, 0)
         [] i = "Dup" ->
                IF one.err # "none" THEN one
                ELSE PushTypes(one, <<one.found[1], one.found[1]>>)
         [] i = "Dup2" ->
                IF two.err # "none" THEN two ELSE PushTypes(two, <<b, a, b, a>>)
         [] i = "Swap" ->
                IF two.err # "none" THEN two ELSE PushTypes(two, <<a, b>>)
         [] i = "Mem" -> PushTypes(r, <<"Ptr">>)
         [] i = "Drop" -> Require(r, 1)
         [] i = "Drop2" -> Require(r, 2)
         [] i = "Over" ->
                IF two.err # "none" THEN two ELSE PushTypes(two, <<b, a, b>>)
         [] i = "CastPtr" -> PushTypes(Expect(r, {"Int"}), <<"Ptr">>)
         [] i = "CastInt" ->
                PushTypes(Expect(r, {"Char", "Ptr", "Bool"}), <<"Int">>)
         [] i = "Here" -> PushTypes(r, <<"Int", "Ptr">>)

\* the number of arguments of SyscallKind::SyscallN, the syscall number
\* included
SyscallKinds ==
    <<"Syscall0", "Syscall1", "Syscall2", "Syscall3", "Syscall4", "Syscall5",
      "Syscall6">>
SyscallArity(s) == CHOOSE n \in 1..Len(SyscallKinds) : SyscallKinds[n] = s

\* InstructionKind::Syscall(s)
TypecheckSyscall(st, s) ==
    PushTypes(Require(Typed(st), SyscallArity(s)), <<"Int">>)

\* an entry of `snapshots`: a copy of the stack and the keyword that made it
Snapshot(st, kw) == [stack |-> st, op_type |-> kw]

\* the locals of typecheck after a keyword, and the error it returns
Walk(st, snaps, err) == [stack |-> st, snapshots |-> snaps, err |-> err]

\* Keyword::While
TypecheckWhile(st, snaps) ==
    Walk(st, Append(snaps, Snapshot(st, "While")), "none")

\* a Do that compares the stack of a loop before it pops the condition
TypecheckDoBeforePop(st, snaps) ==
    LET cond == Expect(Typed(st), {"Bool"})
        now == cond.stack
        after == Append(Pop(snaps), Snapshot(now, "Do"))
    IN IF cond.err # "none" THEN Walk(st, snaps, cond.err)
       ELSE IF snaps = <<>> THEN Walk(st, snaps, "InvalidLoop")
       ELSE IF Top(snaps).op_type = "While"
            THEN IF st # Top(snaps).stack THEN Walk(st, snaps, "InvalidLoop")
                 ELSE Walk(now, after, "none")
       ELSE IF Top(snaps).op_type = "If" THEN Walk(now, after, "none")
       ELSE Walk(st, snaps, "InvalidLoop")

\* a Do that takes a condition of any type
TypecheckDoAnyCondition(st, snaps) ==
    LET cond == PopType(Typed(st))
        now == cond.stack
        after == Append(Pop(snaps), Snapshot(now, "Do"))
    IN IF cond.err # "none" THEN Walk(st, snaps, cond.err)
       ELSE IF snaps = <<>> THEN Walk(st, snaps, "InvalidLoop")
       ELSE IF Top(snaps).op_type = "While"
            THEN IF now # Top(snaps).stack THEN Walk(st, snaps, "InvalidLoop")
                 ELSE Walk(now, after, "none")
       ELSE IF Top(snaps).op_type = "If" THEN Walk(now, after, "none")
       ELSE Walk(st, snaps, "InvalidLoop")

\* Keyword::Do: the condition is popped before the snapshot is looked at
TypecheckDo(st, snaps) ==
    LET cond == Expect(Typed(st), {"Bool"})
        now == cond.stack
        after == Append(Pop(snaps), Snapshot(now, "Do"))
    IN IF cond.err # "none" THEN Walk(st, snaps, cond.err)
       ELSE IF snaps = <<>> THEN Walk(st, snaps, "InvalidLoop")
       ELSE IF Top(snaps).op_type = "While"
            THEN IF now # Top(snaps).stack THEN Walk(st, snaps, "InvalidLoop")
                 ELSE Walk(now, after, "none")
       ELSE IF Top(snaps).op_type = "If" THEN Walk(now, after, "none")
       ELSE Walk(st, snaps, "InvalidLoop")

\* Keyword::If
TypecheckIf(st, snaps) == Walk(st, Append(snaps, Snapshot(st, "If")), "none")

\* an Else that records the stack it restores instead of the stack it leaves
TypecheckElseKeepsSnapshot(st, snaps) ==
    IF snaps = <<>> THEN Walk(st, snaps, "InvalidElse")
    ELSE IF Top(snaps).op_type = "Do"
         THEN Walk(Top(snaps).stack,
                   Append(Pop(snaps), Snapshot(Top(snaps).stack, "Else")), "none")
    ELSE Walk(st, snaps, "InvalidElse")

\* an Else that leaves the stack of the finished arm live
TypecheckElseKeepsStack(st, snaps) ==
    IF snaps = <<>> THEN Walk(st, snaps, "InvalidElse")
    ELSE IF Top(snaps).op_type = "Do"
         THEN Walk(st, Append(Pop(snaps), Snapshot(st, "Else")), "none")
    ELSE Walk(st, snaps, "InvalidElse")

\* Keyword::Else: std::mem::replace(&mut stack, stack_snapshot) restores the
\* stack of the Do and hands the stack of the finished arm to the snapshot
TypecheckElse(st, snaps) ==
    IF snaps = <<>> THEN Walk(st, snaps, "InvalidElse")
    ELSE IF Top(snaps).op_type = "Do"
         THEN Walk(Top(snaps).stack,
                   Append(Pop(snaps), Snapshot(st, "Else")), "none")
    ELSE Walk(st, snaps, "InvalidElse")

\* an End that compares the stacks behind an Else only
TypecheckEndElseOnly(st, snaps) ==
    IF snaps = <<>> THEN Walk(st, snaps, "InvalidEnd")
    ELSE IF Top(snaps).op_type \in {"Do", "Else"}
         THEN IF Top(snaps).op_type = "Else" /\ st # Top(snaps).stack
              THEN Walk(st, snaps, "InvalidEnd")
              ELSE Walk(st, Pop(snaps), "none")
    ELSE Walk(st, snaps, "panic")

\* an End that pops its snapshot and compares nothing
TypecheckEndAnyStack(st, snaps) ==
    IF snaps = <<>> THEN Walk(st, snaps, "InvalidEnd")
    ELSE IF Top(snaps).op_type \in {"Do", "Else"} THEN Walk(st, Pop(snaps), "none")
    ELSE Walk(st, snaps, "panic")

\* Keyword::End: a snapshot of While or If reaches unreachable!()
TypecheckEnd(st, snaps) ==
    IF snaps = <<>> THEN Walk(st, snaps, "InvalidEnd")
    ELSE IF Top(snaps).op_type \in {"Do", "Else"}
         THEN IF st # Top(snaps).stack THEN Walk(st, snaps, "InvalidEnd")
              ELSE Walk(st, Pop(snaps), "none")
    ELSE Walk(st, snaps, "panic")

\* Keyword::Macro, Keyword::Include, and the arm `unim => todo!(..)` of the
\* kinds of instruction typecheck does not implement
TypecheckUnexpected(kind) ==
    CASE kind = "Macro" -> "MacroInCode"
      [] kind = "Include" -> "IncludeInCode"
      [] OTHER -> "panic"

\* a check of the last stack that lets one value of any type pass
FinalStackAnyOne(st) == IF Len(st) > 1 THEN "InvalidStack" ELSE "Ok"

\* the check behind the loop: at most one value, and that one an Int
FinalStack(st) ==
    IF Len(st) > 1 THEN "InvalidStack"
    ELSE IF Len(st) = 1 /\ st[1] # "Int" THEN "InvalidStack"
    ELSE "Ok"

\* the arms of the blocks the walk has met: `open` runs parallel to snapshots,
\* `closed` holds the blocks an End has popped
NoArms == [open |-> <<>>, closed |-> {}]
Opened(kw) == [opener |-> kw, exits |-> <<>>]

----------------------------------------------------------------------------
(* simulate: the runtime stack and the effect of one instruction *)

\* a value of the runtime stack: an i64, its bits left open
Word == "i64"

\* SimulationState { stack: Vec::new(), .., ip: 0 }: simulate pushes nothing
\* before its loop; memory, fds, argc and str_allocated are left out
SimulationStart == [stack |-> <<>>, ip |-> 0]

\* the state of a call of sim_instruction, and how the call ended: "none"
\* while it runs, an error kind, "panic" (todo!, an index out of bounds, an
\* arithmetic panic) or "exit" (std::process::exit)
Sim(st) == [stack |-> st.stack, ip |-> st.ip, err |-> "none"]
SimEnd(r, how) == IF r.err # "none" THEN r ELSE [r EXCEPT !.err = how]

\* pop!(): RuntimeError(StackUnderflow) on an empty stack
SimPop(r) ==
    IF r.err # "none" THEN r
    ELSE IF r.stack = <<>> THEN SimEnd(r, "StackUnderflow")
    ELSE [r EXCEPT !.stack = Pop(@)]

\* pop!() n times in turn: the pops before the failing one have happened
RECURSIVE SimPops(_, _)
SimPops(r, n) == IF n = 0 THEN r ELSE SimPops(SimPop(r), n - 1)

\* `stack.pop();`: the Option that Vec::pop returns is dropped
SimDiscard(r) ==
    IF r.err # "none" \/ r.stack = <<>> THEN r ELSE [r EXCEPT !.stack = Pop(@)]

\* stack.push(..) n times
SimPushes(r, n) ==
    IF r.err # "none" THEN r ELSE [r EXCEPT !.stack = @ \o [k \in 1..n |-> Word]]

\* `*ip += 1; Ok(())` behind the match, and `*ip = to; return Ok(())`
SimAdvance(r) == IF r.err # "none" THEN r ELSE [r EXCEPT !.ip = @ + 1]
SimJump(r, to) == IF r.err # "none" THEN r ELSE [r EXCEPT !.ip = to]

\* InstructionKind::Push(val): a string pushes its length and its address,
\* and fails when the string buffer is full; Value::Ptr is a todo!()
SimValue(st, val) ==
    IF val.kind = "PushStr"
    THEN {SimAdvance(SimPushes(Sim(st), 2)),
          SimEnd(SimPushes(Sim(st), 2), "StringCapacityExceeded")}
    ELSE IF val.arg = "Ptr" THEN {SimEnd(Sim(st), "panic")}
    ELSE {SimAdvance(SimPushes(Sim(st), 1))}

\* InstructionKind::Syscall(s): the number and the arguments are popped, then
\* `match syscall`: exit (60) and close (3) of syscall1, read (0) and write
\* (1) of syscall3, todo!() for every other number
SimSyscall(st, s) ==
    LET r == SimPops(Sim(st), SyscallArity(s))
    IN IF r.err # "none" THEN {r}
       ELSE CASE s = "Syscall1" ->
                     {SimEnd(r, "exit"), SimAdvance(r), SimEnd(r, "panic")}
              [] s = "Syscall3" ->
                     {SimAdvance(SimPushes(r, 1)), SimEnd(r, "IOError"),
                      SimEnd(r, "panic")}
              [] OTHER -> {SimEnd(r, "panic")}

\* keywords whose End never goes back to a While
SimKeywordEndGoesOn(st, inst) ==
    LET r == Sim(st)
    IN CASE inst.kind \in {"While", "If", "End"} -> {SimAdvance(r)}
         [] inst.kind = "Do" ->
                {SimJump(SimPop(r), inst.end_ip + 1), SimAdvance(SimPop(r))}
         [] inst.kind \in {"Elif", "Else"} -> {SimJump(r, inst.end_ip)}
         [] inst.kind = "Macro" -> {SimEnd(r, "MacroNotExpanded")}
         [] inst.kind = "Name" -> {SimEnd(r, "NameNotResolved")}
         [] OTHER -> {SimEnd(r, "panic")}

\* InstructionKind::Keyword(kw), and InstructionKind::Name: Do leaves the
\* block when the value it pops is 0
SimKeyword(st, inst) ==
    LET r == Sim(st)
    IN CASE inst.kind \in {"While", "If"} -> {SimAdvance(r)}
         [] inst.kind = "Do" ->
                {SimJump(SimPop(r), inst.end_ip + 1), SimAdvance(SimPop(r))}
         [] inst.kind \in {"Elif", "Else"} -> {SimJump(r, inst.end_ip)}
         [] inst.kind = "End" ->
                IF inst.while_ip # None THEN {SimJump(r, inst.while_ip)}
                ELSE {SimAdvance(r)}
         [] inst.kind = "Macro" -> {SimEnd(r, "MacroNotExpanded")}
         [] inst.kind = "Name" -> {SimEnd(r, "NameNotResolved")}
         [] OTHER -> {SimEnd(r, "panic")}

\* InstructionKind::Intrinsic(i)
SimIntrinsic(st, i) ==
    LET r == Sim(st)
    IN CASE i = "Panic" -> {SimEnd(r, "exit")}
         [] i = "Print" -> {SimAdvance(SimPop(r))}
         [] i = "Dup" -> {SimAdvance(SimPushes(SimPop(r), 2))}
         [] i \in {"Mem", "Argc", "Argv"} -> {SimAdvance(SimPushes(r, 1))}
         [] i = "Swap" -> {SimAdvance(SimPushes(SimPops(r, 2), 2))}
         [] i = "Drop" -> {SimAdvance(SimDiscard(r))}
         [] i = "Over" -> {SimAdvance(SimPushes(SimPops(r, 2), 3))}
         [] i = "Drop2" -> {SimAdvance(SimDiscard(SimDiscard(r)))}
         [] i = "Dup2" -> {SimAdvance(SimPushes(SimPops(r, 2), 4))}
         [] i \in {"CastPtr", "CastInt"} -> {SimAdvance(r)}
         [] OTHER -> {SimEnd(r, "panic")}

\* InstructionKind::Op(op): the arithmetic of i64 panics on a division by
\* zero and, in a build with overflow checks, on an overflow; a load or a
\* store outside of the memory fails or panics
SimOp(st, op) ==
    LET r == Sim(st)
        two == SimPops(r, 2)
        one == SimPop(r)
    IN CASE op \in {"Add", "Sub", "Mul", "Div", "Mod", "Shl", "Shr"} ->
                IF two.err # "none" THEN {two}
                ELSE {SimAdvance(SimPushes(two, 1)), SimEnd(two, "panic")}
         [] op = "DivMod" ->
                IF two.err # "none" THEN {two}
                ELSE {SimAdvance(SimPushes(two, 2)), SimEnd(two, "panic")}
         [] op \in {"BitwiseAnd", "BitwiseOr", "BitwiseXor", "Eq", "Neq", "Lt",
                    "Gt", "Lte", "Gte"} ->
                {SimAdvance(SimPushes(two, 1))}
         [] op = "BitwiseNot" -> {SimAdvance(SimPushes(one, 1))}
         [] op \in {"Store", "Store64"} ->
                IF two.err # "none" THEN {two}
                ELSE {SimAdvance(two), SimEnd(two, "InvalidMemoryAccess"),
                      SimEnd(two, "panic")}
         [] op \in {"Load", "Load64"} ->
                IF one.err # "none" THEN {one}
                ELSE {SimAdvance(SimPushes(one, 1)),
                      SimEnd(one, "InvalidMemoryAccess"), SimEnd(one, "panic")}

----------------------------------------------------------------------------
(* The pipeline of process, and the calls of jumps *)

Init ==
    /\ \E in \in Inputs :
        /\ instructions = Parse(in.source)
        /\ files = in.files
    /\ origin = instructions
    /\ frames = <<>>
    /\ cause = "none"
    /\ macros = <<>>
    /\ collect = CollectStart
    /\ expand = ExpandStart
    /\ jump_stack = <<>>
    /\ elifs = <<>>
    /\ ip = 0
    /\ depth = 0
    /\ passes = 0
    /\ pc = "here"
    /\ result = "none"
    /\ detail = <<>>
    /\ runs = 0
    /\ first = <<>>
    /\ expanded = {}
    /\ type_stack = <<>>
    /\ snapshots = <<>>
    /\ arms = NoArms
    /\ stacks = <<>>
    /\ state = SimulationStart
    /\ stage = "process"
    /\ unsafe = FALSE

\* a call of jumps on an array that comes from the parser
InitJumps ==
    /\ instructions \in {Parse(s) : s \in JumpPrograms \cup PayloadPrograms}
    /\ files = NoFiles
    /\ origin = instructions
    /\ frames = <<>>
    /\ cause = "none"
    /\ macros = <<>>
    /\ collect = CollectStart
    /\ expand = ExpandStart
    /\ jump_stack = <<>>
    /\ elifs = <<>>
    /\ ip = 0
    /\ depth = 0
    /\ passes = 0
    /\ pc = "jumps"
    /\ result = "none"
    /\ detail = <<>>
    /\ runs = 1
    /\ first = <<>>
    /\ expanded = {}
    /\ type_stack = <<>>
    /\ snapshots = <<>>
    /\ arms = NoArms
    /\ stacks = <<>>
    /\ state = SimulationStart
    /\ stage = "process"
    /\ unsafe = FALSE

\* the variables that here and includes leave alone
laterVars ==
    <<macros, collect, expand, jump_stack, elifs, ip, depth, passes, runs, first,
      expanded, files, origin>>

\* here(&mut program), then the call includes(&mut program, 0)
HereRun ==
    /\ pc = "here"
    /\ instructions' = here(instructions)
    /\ frames' = <<IncludeFrame(here(instructions))>>
    /\ pc' = "includes"
    /\ UNCHANGED <<result, detail, cause>>
    /\ UNCHANGED <<laterVars, typeVars, simVars>>

\* the innermost call of includes; its depth is the number of calls around it
TopFrame == frames[Len(frames)]
SetTop(f) == [frames EXCEPT ![Len(frames)] = f]

\* includes goes on with the frames fs; the array of the outermost call is
\* program.instructions of process
IncludesGoOn(fs) ==
    /\ frames' = fs
    /\ instructions' = fs[1].instructions
    /\ UNCHANGED <<pc, result, detail, cause>>
    /\ UNCHANGED <<laterVars, typeVars, simVars>>

\* an error of includes that process drops: collect_macros runs all the same
IncludesFailDropped(kind, payload, why) ==
    /\ result' = kind
    /\ detail' = payload
    /\ cause' = why
    /\ pc' = "collect"
    /\ UNCHANGED <<instructions, frames>>
    /\ UNCHANGED <<laterVars, typeVars, simVars>>

\* err! in includes: the error goes up through every call to process
IncludesFail(kind, payload, why) ==
    /\ result' = kind
    /\ detail' = payload
    /\ cause' = why
    /\ pc' = "done"
    /\ UNCHANGED <<instructions, frames>>
    /\ UNCHANGED <<laterVars, typeVars, simVars>>

\* the head of includes: the test of depth
IncludesEnter ==
    /\ pc = "includes"
    /\ TopFrame.phase = "enter"
    /\ IF IncludeDepthExceeded(Len(frames) - 1)
       THEN IncludesFail("RecursiveInclude", <<>>, "depth")
       ELSE IncludesGoOn(SetTop([TopFrame EXCEPT !.phase = "scan"]))

\* one iteration of the loop that collects the includes
IncludesScan ==
    /\ pc = "includes"
    /\ TopFrame.phase = "scan"
    /\ TopFrame.pos < Len(TopFrame.instructions)
    /\ LET r == IncludesScanStep(TopFrame)
       IN IF r.result = "none"
          THEN IncludesGoOn(SetTop(r.frame))
          ELSE IncludesFail(r.result, r.detail, "not_literal")

\* the loop that looks every include path up, then the loop that removes the
\* include instructions
IncludesResolve ==
    /\ pc = "includes"
    /\ TopFrame.phase = "scan"
    /\ TopFrame.pos = Len(TopFrame.instructions)
    /\ LET missing == MissingPaths(files, TopFrame)
       IN IF missing # {}
          THEN LET k == CHOOSE m \in missing : \A n \in missing : m <= n
               IN IncludesFail("IncludeNotFound",
                               <<TopFrame.include_paths[k][1]>>, "missing")
          ELSE IncludesGoOn(SetTop(
                   [TopFrame EXCEPT
                        !.instructions =
                            RemoveIncludes(@, TopFrame.inst_to_remove, 0),
                        !.phase = "append"]))

\* one iteration of the last loop up to the recursive call: read the file,
\* parse it, here, includes(&mut include_program, depth + 1)
IncludesRead ==
    /\ pc = "includes"
    /\ TopFrame.phase = "append"
    /\ TopFrame.next <= Len(TopFrame.include_paths)
    /\ LET path == TopFrame.include_paths[TopFrame.next][1]
       IN IF ~Readable(files, path)
          THEN IncludesFail("IncludeNotFound", <<path>>, "unreadable")
          ELSE IncludesGoOn(Append(frames,
                   IncludeFrame(here(Parse(files[path].source)))))

\* includes returns Ok: the caller appends the array of the included program,
\* and process goes on to collect_macros when the outermost call returns
IncludesReturn ==
    /\ pc = "includes"
    /\ TopFrame.phase = "append"
    /\ TopFrame.next > Len(TopFrame.include_paths)
    /\ IF Len(frames) = 1
       THEN /\ pc' = "collect"
            /\ frames' = <<>>
            /\ UNCHANGED <<instructions, result, detail, cause>>
            /\ UNCHANGED <<laterVars, typeVars, simVars>>
       ELSE IncludesGoOn(
                Append(SubSeq(frames, 1, Len(frames) - 2),
                       AppendIncluded(frames[Len(frames) - 1], TopFrame)))

\* collect_macros: one iteration of its for loop
CollectIter ==
    /\ pc = "collect"
    /\ ip < Len(instructions)
    /\ LET r == CollectStep(instructions[ip + 1], ip, CollectState(collect, macros))
       IN /\ collect' = CollectLocals(r)
          /\ macros' = r.macros
          /\ result' = r.result
          /\ IF r.result = "none"
             THEN ip' = ip + 1 /\ pc' = pc
             ELSE ip' = ip /\ pc' = "done"
    /\ UNCHANGED <<instructions, expand, jump_stack, elifs, depth, passes, detail,
                   runs, first, expanded>>
    /\ UNCHANGED <<inclVars, typeVars, simVars>>

\* collect_macros returns; process enters its expansion loop and calls
\* expand_macros for the first time
CollectDone ==
    /\ pc = "collect"
    /\ ip = Len(instructions)
    /\ CollectReturn(collect) = "Ok"
    /\ pc' = "expand"
    /\ ip' = 0
    /\ expand' = ExpandStart
    /\ passes' = passes + 1
    /\ UNCHANGED <<instructions, macros, collect, jump_stack, elifs, depth, result,
                   detail, runs, first, expanded>>
    /\ UNCHANGED <<inclVars, typeVars, simVars>>

\* expand_macros: one iteration of its for loop
ExpandIter ==
    /\ pc = "expand"
    /\ ip < Len(instructions)
    /\ LET r == ExpandStep(instructions[ip + 1], macros, expand)
       IN /\ Len(r.new_instructions) <= MaxInstructions
          /\ expand' = ExpandLocals(r)
          /\ expanded' = IF Invokes(instructions[ip + 1], macros, expand)
                         THEN expanded \cup {instructions[ip + 1].arg}
                         ELSE expanded
          /\ result' = r.result
          /\ IF r.result = "none"
             THEN ip' = ip + 1 /\ pc' = pc
             ELSE ip' = ip /\ pc' = "done"
    /\ UNCHANGED <<instructions, macros, collect, jump_stack, elifs, depth, passes,
                   detail, runs, first>>
    /\ UNCHANGED <<inclVars, typeVars, simVars>>

\* expand_macros returns Ok(true): the body of the loop of process, and, below
\* the cap, the next call of expand_macros
ExpandAgain ==
    /\ pc = "expand"
    /\ ip = Len(instructions)
    /\ expand.has_expanded
    /\ instructions' = expand.new_instructions
    /\ IF DepthExceeded(depth)
       THEN /\ result' = "TooManyMacroExpansions"
            /\ pc' = "done"
            /\ UNCHANGED <<depth, passes, expand, ip>>
       ELSE /\ depth' = depth + 1
            /\ passes' = passes + 1
            /\ expand' = ExpandStart
            /\ ip' = 0
            /\ UNCHANGED <<pc, result>>
    /\ UNCHANGED <<macros, collect, jump_stack, elifs, detail, runs, first, expanded>>
    /\ UNCHANGED <<inclVars, typeVars, simVars>>

\* expand_macros returns Ok(false): the loop of process ends, then
\* ips(&mut program) and the call of jumps
ExpandDone ==
    /\ pc = "expand"
    /\ ip = Len(instructions)
    /\ ~expand.has_expanded
    /\ instructions' = ips(expand.new_instructions)
    /\ pc' = "jumps"
    /\ runs' = 1
    /\ ip' = 0
    /\ jump_stack' = <<>>
    /\ elifs' = <<>>
    /\ UNCHANGED <<macros, collect, expand, depth, passes, result, detail, first, expanded>>
    /\ UNCHANGED <<inclVars, typeVars, simVars>>

\* the state after one iteration of the loop of jumps with outcome r
JumpsApply(r) ==
    /\ instructions' = r.instructions
    /\ jump_stack' = r.jump_stack
    /\ elifs' = r.elifs
    /\ result' = r.result
    /\ detail' = r.detail
    /\ IF r.result = "none"
       THEN ip' = ip + 1 /\ pc' = pc
       ELSE ip' = ip /\ pc' = "done"
    /\ UNCHANGED <<macros, collect, expand, depth, passes, runs, first, expanded>>
    /\ UNCHANGED <<inclVars, typeVars, simVars>>

JumpsAt(kind) ==
    /\ pc = "jumps"
    /\ ip < Len(instructions)
    /\ instructions[ip + 1].kind = kind

JumpsOnIf ==
    /\ JumpsAt("If")
    /\ JumpsApply(JumpsIf(SetIp(instructions, ip), jump_stack, elifs, ip))

JumpsOnElif ==
    /\ JumpsAt("Elif")
    /\ JumpsApply(JumpsElif(SetIp(instructions, ip), jump_stack, elifs, ip))

JumpsOnElse ==
    /\ JumpsAt("Else")
    /\ JumpsApply(JumpsElse(SetIp(instructions, ip), jump_stack, elifs, ip))

JumpsOnEnd ==
    /\ JumpsAt("End")
    /\ JumpsApply(JumpsEnd(SetIp(instructions, ip), jump_stack, elifs, ip))

JumpsOnWhile ==
    /\ JumpsAt("While")
    /\ JumpsApply(JumpsWhile(SetIp(instructions, ip), jump_stack, elifs, ip))

JumpsOnDo ==
    /\ JumpsAt("Do")
    /\ JumpsApply(JumpsDo(SetIp(instructions, ip), jump_stack, elifs, ip))

JumpsOnOther ==
    /\ pc = "jumps"
    /\ ip < Len(instructions)
    /\ instructions[ip + 1].kind \notin {"If", "Elif", "Else", "End", "While", "Do"}
    /\ JumpsApply(JumpsOther(SetIp(instructions, ip), jump_stack, elifs, ip))

\* the loop of jumps is over: the function returns
JumpsFinish ==
    /\ pc = "jumps"
    /\ ip = Len(instructions)
    /\ result' = JumpsReturn(jump_stack)
    /\ pc' = "done"
    /\ first' = IF runs = 1 THEN instructions ELSE first
    /\ UNCHANGED <<instructions, macros, collect, expand, jump_stack, elifs, ip,
                   depth, passes, detail, runs, expanded>>
    /\ UNCHANGED <<inclVars, typeVars, simVars>>

\* the caller runs jumps again on the array a first call resolved
JumpsAgain ==
    /\ pc = "done"
    /\ result = "Ok"
    /\ runs = 1
    /\ runs' = 2
    /\ pc' = "jumps"
    /\ result' = "none"
    /\ ip' = 0
    /\ jump_stack' = <<>>
    /\ elifs' = <<>>
    /\ UNCHANGED <<instructions, macros, collect, expand, depth, passes, detail,
                   first, expanded>>
    /\ UNCHANGED <<inclVars, typeVars, simVars>>

JumpsLoop ==
    \/ JumpsOnIf
    \/ JumpsOnElif
    \/ JumpsOnElse
    \/ JumpsOnEnd
    \/ JumpsOnWhile
    \/ JumpsOnDo
    \/ JumpsOnOther
    \/ JumpsFinish

Next ==
    \/ HereRun
    \/ IncludesEnter
    \/ IncludesScan
    \/ IncludesResolve
    \/ IncludesRead
    \/ IncludesReturn
    \/ CollectIter
    \/ CollectDone
    \/ ExpandIter
    \/ ExpandAgain
    \/ ExpandDone
    \/ JumpsLoop

Spec == Init /\ [][Next]_vars

NextJumps ==
    \/ JumpsLoop
    \/ JumpsAgain

SpecJumps == InitJumps /\ [][NextJumps]_vars

----------------------------------------------------------------------------
(* typecheck: the walk over the array; one action per instruction *)

\* straight-line instructions of the arms and conditions of the inputs
ArmTokens == {ValueTok("Int"), ValueTok("Bool"), IntrinsicTok("Drop")}
Arms == SeqsUpTo(ArmTokens, MaxArmLen)
Conditions ==
    {<<ValueTok("Bool")>>, <<ValueTok("Int"), ValueTok("Int"), OpTok("Eq")>>,
     <<ValueTok("Int"), ValueTok("Bool")>>}

Branch(c, a, b) ==
    <<Tok("If")>> \o c \o <<Tok("Do")>> \o a \o <<Tok("Else")>> \o b
        \o <<Tok("End")>>
BranchOnly(c, a) == <<Tok("If")>> \o c \o <<Tok("Do")>> \o a \o <<Tok("End")>>
Loop(c, a) ==
    <<Tok("While")>> \o c \o <<Tok("Do")>> \o a \o <<Tok("End")>>

\* arms that hold a block of their own
NestedArms ==
    Arms \cup {Branch(<<ValueTok("Bool")>>, a, b) : a, b \in Arms}
         \cup {BranchOnly(<<ValueTok("Bool")>>, a) : a \in Arms}
         \cup {Loop(<<ValueTok("Bool")>>, a) : a \in Arms}

\* a block, and what is left on the stack dropped or not
BlockPrograms ==
    LET blocks ==
            {Branch(c, a, b) : c \in Conditions, a \in NestedArms, b \in Arms}
            \cup {Branch(c, a, b) : c \in Conditions, a \in Arms, b \in NestedArms}
            \cup {BranchOnly(c, a) : c \in Conditions, a \in NestedArms}
            \cup {Loop(c, a) : c \in Conditions, a \in NestedArms}
    IN {b \o t : b \in blocks, t \in {<<>>, <<IntrinsicTok("Drop")>>}}

\* every short sequence over one instruction of each arm of the match
TypeTokens ==
    {ValueTok("Int"), ValueTok("Bool"), ValueTok("Char"), StrTok("s"),
     OpTok("Eq"), OpTok("Add"), IntrinsicTok("Drop"), SyscallTok("Syscall0"),
     Tok("While"), Tok("Do"), Tok("If"), Tok("Else"), Tok("End"), Tok("Macro"),
     Tok("Include"), NameTok(A)}

\* the sources `if 1 do 2 print else 3 print end` and `1 2 + print`
BranchOnInt ==
    Branch(<<ValueTok("Int")>>, <<ValueTok("Int"), IntrinsicTok("Print")>>,
           <<ValueTok("Int"), IntrinsicTok("Print")>>)
AddAndPrint ==
    <<ValueTok("Int"), ValueTok("Int"), OpTok("Add"), IntrinsicTok("Print")>>

\* a While block with an Else arm, which jumps rejects and typecheck walks
LoopsWithElse ==
    {<<Tok("While"), ValueTok("Bool"), Tok("Do")>> \o a \o <<Tok("Else")>> \o b
        \o <<Tok("End")>> \o t
     : a \in Arms, b \in Arms, t \in {<<>>, <<IntrinsicTok("Drop")>>}}

TypePrograms ==
    SeqsUpTo(TypeTokens, MaxTypeLen) \cup BlockPrograms \cup LoopsWithElse
        \cup {BranchOnInt, AddAndPrint}

\* a call typecheck(&program, false); typecheck reads the kinds of the
\* instructions and none of their jump slots
InitTypecheck ==
    /\ instructions \in {Parse(s) : s \in TypePrograms}
    /\ files = NoFiles
    /\ origin = instructions
    /\ frames = <<>>
    /\ cause = "none"
    /\ macros = <<>>
    /\ collect = CollectStart
    /\ expand = ExpandStart
    /\ jump_stack = <<>>
    /\ elifs = <<>>
    /\ ip = 0
    /\ depth = 0
    /\ passes = 0
    /\ pc = "typecheck"
    /\ result = "none"
    /\ detail = <<>>
    /\ runs = 0
    /\ first = <<>>
    /\ expanded = {}
    /\ type_stack = <<>>
    /\ snapshots = <<>>
    /\ arms = NoArms
    /\ stacks = <<>>
    /\ state = SimulationStart
    /\ stage = "typecheck"
    /\ unsafe = FALSE

\* the variables typecheck leaves alone: program is borrowed immutably
untypedVars ==
    <<instructions, macros, collect, expand, jump_stack, elifs, depth, passes,
      detail, runs, first, expanded, inclVars, simVars>>

\* `while ip < instructions.len()` enters its body on instructions[ip]
TypecheckAt(kinds) ==
    /\ pc = "typecheck"
    /\ ip < Len(instructions)
    /\ instructions[ip + 1].kind \in kinds

\* the end of an iteration: `ip += 1`, or the `return Err(..)` (the panic)
\* of the instruction
TypecheckGoOn(st, snaps, err, met) ==
    /\ IF err = "none"
       THEN /\ type_stack' = st
            /\ snapshots' = snaps
            /\ ip' = ip + 1
            /\ UNCHANGED <<pc, result>>
       ELSE /\ result' = err
            /\ pc' = "done"
            /\ UNCHANGED <<type_stack, snapshots, ip>>
    /\ arms' = met
    /\ stacks' = Append(stacks, type_stack)
    /\ UNCHANGED untypedVars

TypecheckStraight(r) == TypecheckGoOn(r.stack, snapshots, r.err, arms)

TypecheckOnPush ==
    /\ TypecheckAt({"Push", "PushStr"})
    /\ TypecheckStraight(TypecheckValue(type_stack, instructions[ip + 1]))

TypecheckOnOp ==
    /\ TypecheckAt({"Op"})
    /\ TypecheckStraight(TypecheckOp(type_stack, instructions[ip + 1].arg))

TypecheckOnIntrinsic ==
    /\ TypecheckAt({"Intrinsic"})
    /\ TypecheckStraight(TypecheckIntrinsic(type_stack, instructions[ip + 1].arg))

TypecheckOnSyscall ==
    /\ TypecheckAt({"Syscall"})
    /\ TypecheckStraight(TypecheckSyscall(type_stack, instructions[ip + 1].arg))

TypecheckKeyword(w, met) == TypecheckGoOn(w.stack, w.snapshots, w.err, met)

\* While and If open a block
TypecheckOnWhile ==
    /\ TypecheckAt({"While"})
    /\ TypecheckKeyword(TypecheckWhile(type_stack, snapshots),
                        [arms EXCEPT !.open = Append(@, Opened("While"))])

TypecheckOnIf ==
    /\ TypecheckAt({"If"})
    /\ TypecheckKeyword(TypecheckIf(type_stack, snapshots),
                        [arms EXCEPT !.open = Append(@, Opened("If"))])

TypecheckOnDo ==
    /\ TypecheckAt({"Do"})
    /\ TypecheckKeyword(TypecheckDo(type_stack, snapshots), arms)

\* Else ends an arm: the walk leaves it with the live stack
TypecheckOnElse ==
    /\ TypecheckAt({"Else"})
    /\ LET w == TypecheckElse(type_stack, snapshots)
       IN TypecheckKeyword(w,
              IF w.err = "none"
              THEN [arms EXCEPT !.open[Len(arms.open)].exits = Append(@, type_stack)]
              ELSE arms)

\* End ends the last arm of the block whose snapshot it pops
TypecheckOnEnd ==
    /\ TypecheckAt({"End"})
    /\ LET w == TypecheckEnd(type_stack, snapshots)
           block == Top(arms.open)
       IN TypecheckKeyword(w,
              IF snapshots = <<>> THEN arms
              ELSE [open |-> Pop(arms.open),
                    closed |-> arms.closed \cup
                        {[opener |-> block.opener,
                          op_type |-> Top(snapshots).op_type,
                          exits |-> Append(block.exits, type_stack),
                          end |-> ip]}])

TypecheckOnUnexpected ==
    /\ TypecheckAt({"Macro", "Include", "Name"})
    /\ TypecheckGoOn(type_stack, snapshots,
                     TypecheckUnexpected(instructions[ip + 1].kind), arms)

\* behind the loop: the check of the last stack, then Ok(())
TypecheckFinish ==
    /\ pc = "typecheck"
    /\ ip = Len(instructions)
    /\ result' = FinalStack(type_stack)
    /\ pc' = "done"
    /\ UNCHANGED <<ip, typeVars>>
    /\ UNCHANGED untypedVars

NextTypecheck ==
    \/ TypecheckOnPush
    \/ TypecheckOnOp
    \/ TypecheckOnIntrinsic
    \/ TypecheckOnSyscall
    \/ TypecheckOnWhile
    \/ TypecheckOnDo
    \/ TypecheckOnIf
    \/ TypecheckOnElse
    \/ TypecheckOnEnd
    \/ TypecheckOnUnexpected
    \/ TypecheckFinish

SpecTypecheck == InitTypecheck /\ [][NextTypecheck]_vars

----------------------------------------------------------------------------
(* The program from the parser to the interpreter: process, typecheck,
   simulate *)

\* -- inputs: sources of typed instructions --
StraightTokens ==
    {ValueTok("Int"), ValueTok("Bool"), StrTok("s"), OpTok("Add"),
     IntrinsicTok("Print"), IntrinsicTok("Drop"), IntrinsicTok("Drop2")}
StraightPrograms == SeqsUpTo(StraightTokens, MaxSimLen)

\* a block that the source leaves open, behind a straight part
Unclosed(p) == p \o <<Tok("If"), ValueTok("Bool"), Tok("Do")>>
\* the sources `0 3 syscall1 print` and `1 'c' 0 3 syscall3 drop`
CloseAndPrint ==
    <<ValueTok("Int"), ValueTok("Int"), SyscallTok("Syscall1"),
      IntrinsicTok("Print")>>
ReadAndDrop ==
    <<ValueTok("Int"), ValueTok("Char"), ValueTok("Int"), ValueTok("Int"),
      SyscallTok("Syscall3"), IntrinsicTok("Drop")>>
\* chains with an Elif arm
ElifPrograms ==
    {<<Tok("If"), ValueTok("Bool"), Tok("Do")>> \o a
        \o <<Tok("Elif"), ValueTok("Bool"), Tok("Do")>> \o a \o e \o <<Tok("End")>>
     : a \in {<<>>, <<ValueTok("Int"), IntrinsicTok("Print")>>},
       e \in {<<>>, <<Tok("Else")>>}}
\* a macro, an include and an invocation around typed instructions
PipelineFiles ==
    "f" :> File(TRUE, <<ValueTok("Int"), IntrinsicTok("Print")>>)
    @@ "g" :> File(TRUE, Including("f") \o <<NameTok("g1")>>)
IncludingPrograms ==
    {MacroDef(A, <<ValueTok("Int")>>) \o Including(path)
        \o <<NameTok(A), IntrinsicTok("Drop")>> \o t
     : path \in {"f", "g"}, t \in {<<>>, <<IntrinsicTok("Print")>>}}
    \cup {MacroDef(A, <<NameTok(B)>>) \o MacroDef(B, <<ValueTok("Int")>>)
            \o <<NameTok(A), IntrinsicTok("Print")>>}

\* a chain or a loop in the arm of an Elif
NestedInElif ==
    {<<Tok("If"), ValueTok("Bool"), Tok("Do"), Tok("Elif"), ValueTok("Bool"),
       Tok("Do")>> \o b \o <<Tok("End")>>
     : b \in {Branch(<<ValueTok("Bool")>>, <<>>, <<>>),
              BranchOnly(<<ValueTok("Bool")>>, <<>>),
              Loop(<<ValueTok("Bool")>>, <<>>)}}

\* a block that has no Do
Headless ==
    {<<Tok(k)>> \o c \o <<Tok("End")>>
     : k \in {"If", "While"}, c \in {<<>>, <<ValueTok("Bool")>>}}

PipelineInputs ==
    [source : StraightPrograms \cup {Unclosed(p) : p \in StraightPrograms}
                \cup BlockPrograms \cup ElifPrograms \cup NestedInElif
                \cup Headless
                \cup {BranchOnInt, AddAndPrint, CloseAndPrint, ReadAndDrop},
     files : {NoFiles}]
    \cup [source : IncludingPrograms, files : {PipelineFiles}]

\* the parser has built the program; the option --unsafe is set or not
InitPipeline ==
    /\ \E in \in PipelineInputs :
        /\ instructions = Parse(in.source)
        /\ files = in.files
    /\ origin = instructions
    /\ frames = <<>>
    /\ cause = "none"
    /\ macros = <<>>
    /\ collect = CollectStart
    /\ expand = ExpandStart
    /\ jump_stack = <<>>
    /\ elifs = <<>>
    /\ ip = 0
    /\ depth = 0
    /\ passes = 0
    /\ pc = "here"
    /\ result = "none"
    /\ detail = <<>>
    /\ runs = 0
    /\ first = <<>>
    /\ expanded = {}
    /\ type_stack = <<>>
    /\ snapshots = <<>>
    /\ arms = NoArms
    /\ stacks = <<>>
    /\ state = SimulationStart
    /\ stage = "process"
    /\ unsafe \in BOOLEAN

\* the variables the calls of typecheck and simulate leave alone
calledVars ==
    <<instructions, macros, collect, expand, jump_stack, elifs, depth, passes,
      detail, runs, first, expanded, inclVars, arms, stacks, unsafe>>

\* typecheck(&program, ..) on the program process returned, unless
\* typechecking is disabled: `let mut stack`, `let mut snapshots`,
\* `let mut ip = 0`
TypecheckEnter ==
    /\ stage = "process"
    /\ pc = "done"
    /\ result = "Ok"
    /\ ~unsafe
    /\ stage' = "typecheck"
    /\ pc' = "typecheck"
    /\ result' = "none"
    /\ ip' = 0
    /\ type_stack' = <<>>
    /\ snapshots' = <<>>
    /\ UNCHANGED <<calledVars, state>>

\* simulate(&program, ..) on the program typecheck accepted, or on the one
\* process returned when typechecking is disabled
SimulateEnter ==
    /\ pc = "done"
    /\ result = "Ok"
    /\ \/ stage = "typecheck"
       \/ stage = "process" /\ unsafe
    /\ stage' = "simulate"
    /\ pc' = "simulate"
    /\ result' = "none"
    /\ state' = SimulationStart
    /\ UNCHANGED <<calledVars, ip, type_stack, snapshots>>

\* `while state.ip < program.len()` enters its body on program[state.ip]
SimulateAt(kinds) ==
    /\ pc = "simulate"
    /\ state.ip < Len(instructions)
    /\ Len(state.stack) <= MaxSimStack
    /\ instructions[state.ip + 1].kind \in kinds

\* sim_instruction(inst, &mut state)?: the state it leaves, and the error
\* that ends simulate
SimulateGoOn(outcomes) ==
    /\ \E r \in outcomes :
        /\ state' = [stack |-> r.stack, ip |-> r.ip]
        /\ IF r.err = "none"
           THEN UNCHANGED <<pc, result>>
           ELSE /\ result' = r.err
                /\ pc' = "done"
    /\ UNCHANGED <<calledVars, ip, type_stack, snapshots, stage>>

SimulateOnPush ==
    /\ SimulateAt({"Push", "PushStr"})
    /\ SimulateGoOn(SimValue(state, instructions[state.ip + 1]))

SimulateOnSyscall ==
    /\ SimulateAt({"Syscall"})
    /\ SimulateGoOn(SimSyscall(state, instructions[state.ip + 1].arg))

SimulateOnKeyword ==
    /\ SimulateAt({"While", "Do", "If", "Elif", "Else", "End", "Macro",
                   "Include", "Name"})
    /\ SimulateGoOn(SimKeyword(state, instructions[state.ip + 1]))

SimulateOnIntrinsic ==
    /\ SimulateAt({"Intrinsic"})
    /\ SimulateGoOn(SimIntrinsic(state, instructions[state.ip + 1].arg))

SimulateOnOp ==
    /\ SimulateAt({"Op"})
    /\ SimulateGoOn(SimOp(state, instructions[state.ip + 1].arg))

\* behind the loop: Ok(())
SimulateFinish ==
    /\ pc = "simulate"
    /\ state.ip >= Len(instructions)
    /\ result' = "Ok"
    /\ pc' = "done"
    /\ UNCHANGED <<calledVars, ip, type_stack, snapshots, stage, state>>

NextSimulate ==
    \/ SimulateOnPush
    \/ SimulateOnSyscall
    \/ SimulateOnKeyword
    \/ SimulateOnIntrinsic
    \/ SimulateOnOp
    \/ SimulateFinish

NextPipeline ==
    \/ Next
    \/ TypecheckEnter
    \/ NextTypecheck
    \/ SimulateEnter
    \/ NextSimulate

SpecPipeline == InitPipeline /\ [][NextPipeline]_vars

----------------------------------------------------------------------------
(* The block structure of the array, read from the kinds of its instructions *)

Kind(i) == instructions[i + 1].kind
Last == Len(instructions) - 1
Min(S) == CHOOSE m \in S : \A n \in S : m <= n
Max(S) == CHOOSE m \in S : \A n \in S : m >= n

\* the number of blocks open in front of instruction p
Level(p) ==
    Cardinality({q \in 0..(p - 1) : Kind(q) \in {"If", "While"}})
        - Cardinality({q \in 0..(p - 1) : Kind(q) = "End"})

\* the Ends behind e that close the block e lies in; the first one closes it
EndsAfter(e) == {q \in (e + 1)..Last : Kind(q) = "End" /\ Level(q) = Level(e)}
ClosingEnd(e) == Min(EndsAfter(e))
\* the If or While that End q closes
OpenersOf(q) ==
    {o \in 0..(q - 1) : Kind(o) \in {"If", "While"} /\ Level(o) = Level(q) - 1}
OpenerOf(q) == Max(OpenersOf(q))
\* the Do of the loop that While o opens
LoopDo(o) == Min({d \in (o + 1)..Last : Kind(d) = "Do" /\ Level(d) = Level(o) + 1})
\* the Do of the arm that Elif or Else e ends
ArmDos(e) == {d \in 0..(e - 1) : Kind(d) = "Do" /\ Level(d) = Level(e)}
ArmDo(e) == Max(ArmDos(e))

ResolvedOk == pc = "done" /\ result = "Ok" /\ runs >= 1

\* a slot that was written: self_ip holds the position of its instruction, a
\* forward target holds a position behind it (the parser leaves 0)
Populated(i) ==
    /\ Kind(i) \in {"While", "Elif", "Else", "End"} => instructions[i + 1].self_ip = i
    /\ Kind(i) \in {"Do", "Elif", "Else"} => instructions[i + 1].end_ip > i
ValidIndex(v) == 0 <= v /\ v <= Last
ValidSlots(i) ==
    /\ ValidIndex(instructions[i + 1].self_ip)
    /\ ValidIndex(instructions[i + 1].end_ip)
    /\ instructions[i + 1].while_ip # None => ValidIndex(instructions[i + 1].while_ip)

----------------------------------------------------------------------------
(* Properties of jumps, checked under SpecJumps *)

\* C1: after jumps returns Ok, every jump slot of every While, Do, Elif, Else
\* and End is populated and holds a valid index of the array.
C1_SlotsPopulatedAndValid ==
    ResolvedOk =>
        \A i \in 0..Last :
            Kind(i) \in SlotKinds => Populated(i) /\ ValidSlots(i)

\* C2: in a resolved program whose blocks are all closed, the converge target
\* of every Elif is the End that closes the chain of that Elif, whatever is
\* nested in the arms of the chain.
C2_ElifConvergesAtOwnEnd ==
    (ResolvedOk /\ jump_stack = <<>>) =>
        \A e \in 0..Last :
            Kind(e) = "Elif" => instructions[e + 1].end_ip = ClosingEnd(e)

\* C3: the End of every while loop holds the self_ip of its While, the Do of
\* the loop holds the position of that End, and the End of an if chain holds
\* no loop_back_target.
C3_LoopBackEdges ==
    ResolvedOk =>
        \A q \in 0..Last :
            Kind(q) = "End" =>
                /\ OpenersOf(q) # {}
                /\ LET o == OpenerOf(q)
                   IN IF Kind(o) = "While"
                      THEN /\ instructions[q + 1].while_ip = instructions[o + 1].self_ip
                           /\ instructions[o + 1].self_ip = o
                           /\ instructions[LoopDo(o) + 1].end_ip = q
                      ELSE instructions[q + 1].while_ip = None

\* a resolved array with a loop nested in a loop and the End of an if chain
C3_Witness ==
    /\ ResolvedOk
    /\ \E q \in 0..Last :
        /\ Kind(q) = "End" /\ Level(q) = 2
        /\ Kind(OpenerOf(q)) = "While"
        /\ instructions[q + 1].while_ip = OpenerOf(q)
        /\ OpenerOf(q) > 0
    /\ \E q \in 0..Last : Kind(q) = "End" /\ Level(q) = 1 /\ Kind(OpenerOf(q)) = "While"

\* C4: the Do of an arm that an Else or an Elif ends holds the position of
\* that Else or Elif, and an Else holds the position of the End of its chain.
C4_ArmTargets ==
    ResolvedOk =>
        \A e \in 0..Last :
            /\ Kind(e) \in {"Elif", "Else"} =>
                   /\ ArmDos(e) # {}
                   /\ instructions[ArmDo(e) + 1].end_ip = e
            /\ (Kind(e) = "Else" /\ EndsAfter(e) # {}) =>
                   instructions[e + 1].end_ip = ClosingEnd(e)

\* a resolved if ... do ... elif ... do ... else ... end
C4_Witness ==
    /\ ResolvedOk
    /\ \E e \in 0..Last, f \in 0..Last :
        /\ Kind(e) = "Elif" /\ Kind(f) = "Else" /\ e < f
        /\ Level(e) = Level(f)
        /\ instructions[ArmDo(f) + 1].end_ip = f
        /\ ArmDo(f) > e
        /\ EndsAfter(f) # {}

\* C5: when the loop of jumps ends with a frame still open, jumps fails with
\* the unclosed-block error that names the open keyword.
C5_UnclosedBlockFails ==
    (pc = "done" /\ runs >= 1 /\ ip = Len(instructions) /\ jump_stack # <<>>) =>
        /\ result = "UnclosedBlock"
        /\ detail = <<Top(jump_stack).t>>

\* C6: an Elif or an Else met while the innermost frame is not ifdo or elifdo,
\* or while no frame is open, makes jumps return UnexpectedKeyword.
C6_ElifElseUnexpected ==
    [][(/\ pc = "jumps"
        /\ ip < Len(instructions)
        /\ instructions[ip + 1].kind \in {"Elif", "Else"}
        /\ \/ jump_stack = <<>>
           \/ Top(jump_stack).t \notin {"ifdo", "elifdo"})
       => (pc' = "done" /\ result' = "UnexpectedKeyword")]_vars

\* C7: a second call of jumps on the array a first call resolved changes no
\* jump slot and no ip.
C7_ReResolutionIdempotent ==
    (runs = 2 /\ pc = "done") => (result = "Ok" /\ instructions = first)

\* a second call has returned on an array with an Elif chain and a loop
C7_Witness ==
    /\ runs = 2
    /\ pc = "done"
    /\ \E e \in 0..Last : Kind(e) = "Elif" /\ instructions[e + 1].end_ip > e
    /\ \E q \in 0..Last : Kind(q) = "End" /\ instructions[q + 1].while_ip # None

----------------------------------------------------------------------------
(* The reference structure of the macros, read from their recorded bodies *)

\* the macros that the body of macro n invokes
Refs(ms, n) ==
    {ms[n].body[j].arg : j \in {k \in DOMAIN ms[n].body : ms[n].body[k].kind = "Name"}}
        \cap DOMAIN ms

\* the macros reached from a macro by one reference or more: ReachStep adds
\* the references of the macros reached last, ReachableFrom adds until none
\* is new (four steps per level of the recursion)
ReachStep(ms, st) ==
    LET next == UNION {Refs(ms, m) : m \in st.frontier} \ st.seen
    IN [frontier |-> next, seen |-> st.seen \cup next]
RECURSIVE ReachableFrom(_, _)
ReachableFrom(ms, st) ==
    LET next == ReachStep(ms, ReachStep(ms, ReachStep(ms, ReachStep(ms, st))))
    IN IF next.frontier = {} THEN next.seen ELSE ReachableFrom(ms, next)

\* macro n references itself, directly or through other macros
OnCycle(ms, n) == n \in ReachableFrom(ms, [frontier |-> {n}, seen |-> {}])

\* the references of every macro
RefMap(ms) == [n \in DOMAIN ms |-> Refs(ms, n)]

\* Layers of the reference graph R: a macro that invokes no macro lies in
\* layer 1, a macro whose references all lie in layers below k and one of them
\* in layer k - 1 lies in layer k.  PeelLayer moves the next layer from
\* remaining to done; Layers peels until no layer is left (four layers per
\* level of the recursion).  depth is the number of layers, remaining the
\* macros that lie in no layer: those that reach a reference cycle.
PeelLayer(R, st) ==
    LET ready == {n \in st.remaining : R[n] \subseteq st.done}
    IN IF ready = {} THEN st
       ELSE [remaining |-> st.remaining \ ready, done |-> st.done \cup ready,
             depth |-> st.depth + 1]
RECURSIVE Layers(_, _)
Layers(R, st) ==
    LET next == PeelLayer(R, PeelLayer(R, PeelLayer(R, PeelLayer(R, st))))
    IN IF next = st THEN st ELSE Layers(R, next)
MacroLayers(ms) ==
    Layers(RefMap(ms), [remaining |-> DOMAIN ms, done |-> {}, depth |-> 0])

\* no macro references itself, directly or through other macros
Acyclic(ms) == MacroLayers(ms).remaining = {}
\* the number of macros of the longest chain of macros invoking macros (of an
\* acyclic set: the macro of layer k heads a chain of k macros)
NestingDepth(ms) == MacroLayers(ms).depth

\* collect_macros has returned: program.macros is complete
Collected == pc \notin {"here", "includes", "collect"}
\* a pass of expand_macros has substituted the body of a macro that lies on a
\* reference cycle
CycleExpanded == \E n \in expanded : OnCycle(macros, n)

----------------------------------------------------------------------------
(* Properties of the expansion loop of process, checked under Spec *)

\* C8 as stated: a program that defines a macro that references itself,
\* directly or through a cycle, never gets past the expansion loop and ends
\* with TooManyMacroExpansions.
C8_DefinedCycleFails ==
    (Collected /\ ~Acyclic(macros)) =>
        /\ pc # "jumps"
        /\ pc = "done" => result = "TooManyMacroExpansions"

\* C8, amended: once a pass has substituted a macro that lies on a reference
\* cycle, no later pass reaches the fixpoint, so preprocessing never succeeds;
\* the loop of process ends it with TooManyMacroExpansions unless an unwrap on
\* an empty stack panics first.
C8_ExpandedCycleNeverSucceeds ==
    (Collected /\ CycleExpanded) =>
        /\ pc # "jumps"
        /\ result # "Ok"
        /\ pc = "done" => result \in {"TooManyMacroExpansions", "panic"}
        /\ passes <= MaxMacroDepth + 1

\* two macros that invoke each other were expanded until the cap ended the loop
C8_Witness ==
    /\ pc = "done"
    /\ result = "TooManyMacroExpansions"
    /\ Cardinality(expanded) = 2
    /\ \A n \in expanded : OnCycle(macros, n) /\ n \notin Refs(macros, n)

\* C9 as stated: TooManyMacroExpansions is raised after exactly 100 passes of
\* expand_macros have run.
C9_RaisedAfterHundredPasses ==
    result = "TooManyMacroExpansions" => passes = MaxMacroDepth

\* C9, amended: TooManyMacroExpansions is raised when the pass counter reads
\* 100 and the pass that follows still substitutes, that is after exactly 101
\* passes of expand_macros have run; the counter never exceeds 100.
C9_RaisedAfterCapPlusOnePasses ==
    /\ depth <= MaxMacroDepth
    /\ passes <= MaxMacroDepth + 1
    /\ result = "TooManyMacroExpansions" =>
           /\ passes = MaxMacroDepth + 1
           /\ depth = MaxMacroDepth
           /\ expand.has_expanded

\* a macro whose body invokes itself was invoked and the cap ended the loop
C9_Witness ==
    /\ result = "TooManyMacroExpansions"
    /\ \E n \in expanded : n \in Refs(macros, n)
    /\ passes = MaxMacroDepth + 1

\* C10 as stated: with no self-reference and no reference cycle among the
\* macros, expansion ends successfully after at most (nesting depth) passes.
C10_AcyclicEndsWithinDepth ==
    LET l == MacroLayers(macros)
    IN (Collected /\ l.remaining = {}) =>
           /\ result \in {"none", "Ok"}
           /\ passes <= l.depth

\* C10, amended: with no reference cycle among the macros and a nesting depth
\* of at most 100, the loop of process never raises TooManyMacroExpansions and
\* ends after at most (nesting depth) substituting passes, that is at most
\* (nesting depth) + 1 passes with the one that finds nothing to substitute.
C10_AcyclicWithinCapReachesFixpoint ==
    LET l == MacroLayers(macros)
    IN (Collected /\ l.remaining = {} /\ l.depth <= MaxMacroDepth) =>
           /\ result # "TooManyMacroExpansions"
           /\ depth <= l.depth
           /\ passes <= l.depth + 1

\* a chain of 100 macros was expanded to its fixpoint in 101 passes
C10_Witness ==
    /\ pc = "jumps"
    /\ passes = MaxMacroDepth + 1
    /\ Acyclic(macros)
    /\ NestingDepth(macros) = MaxMacroDepth

----------------------------------------------------------------------------
(* Properties of the whole of process, checked under Spec *)

\* process has returned Ok(program)
ProcessOk == pc = "done" /\ result = "Ok" /\ runs = 1

\* C11: when process returns Ok, the array holds no Name instruction, no
\* Macro keyword and no Include keyword.
C11_NoNameMacroInclude ==
    ProcessOk =>
        \A i \in DOMAIN instructions :
            instructions[i].kind \notin {"Name", "Macro", "Include"}

----------------------------------------------------------------------------
(* The macro definitions of an array, read from the kinds of its instructions *)

\* the number of definitions and blocks open in front of every position
MacroLevels(instrs) ==
    [p \in 0..Len(instrs) |->
        Cardinality({q \in 0..(p - 1) : instrs[q + 1].kind \in {"Macro", "If", "While"}})
            - Cardinality({q \in 0..(p - 1) : instrs[q + 1].kind = "End"})]

\* the positions of the Macro keywords that open a definition `macro <name>`
\* outside every other definition and block
MacroDefinitions(instrs, lev) ==
    {p \in 0..(Len(instrs) - 2) :
        /\ instrs[p + 1].kind = "Macro"
        /\ lev[p] = 0
        /\ instrs[p + 2].kind = "Name"}

\* the Ends behind the name of definition p that close a definition; the first
\* one is the closing end of p
DefinitionEnds(instrs, lev, p) ==
    {q \in (p + 2)..(Len(instrs) - 1) : instrs[q + 1].kind = "End" /\ lev[q] = 1}

\* the body of definition p with closing end q holds no definition, and every
\* do, elif and else of it lies in a block of the body
WellNestedBody(instrs, lev, p, q) ==
    \A r \in (p + 2)..(q - 1) :
        /\ instrs[r + 1].kind # "Macro"
        /\ instrs[r + 1].kind \in {"Do", "Elif", "Else"} => lev[r] >= 2

\* no definition behind p has the name of p
LastOfName(instrs, lev, p) ==
    \A r \in MacroDefinitions(instrs, lev) :
        r > p => instrs[r + 2].arg # instrs[p + 2].arg

\* collect_macros has returned Ok and instructions is still the array it read
JustCollected == pc = "expand" /\ passes = 1 /\ ip = 0

\* C12: for every definition `macro <name> ... end` whose body holds only
\* well-nested blocks, collect_macros records under <name> exactly the
\* instructions between the name and the closing end of the definition.
C12_BodyIsSliceOfDefinition ==
    JustCollected =>
        LET lev == MacroLevels(instructions)
        IN \A p \in MacroDefinitions(instructions, lev) :
            LET ends == DefinitionEnds(instructions, lev, p)
                q == Min(ends)
                name == instructions[p + 2].arg
            IN (/\ ends # {}
                /\ WellNestedBody(instructions, lev, p, q)
                /\ LastOfName(instructions, lev, p)) =>
                   /\ name \in DOMAIN macros
                   /\ macros[name].body = SubSeq(instructions, p + 3, q)
                   /\ macros[name].loc = <<p, q>>

----------------------------------------------------------------------------
(* Properties of include resolution, checked under Spec *)

\* The array instrs with every pair `include "<path>"` replaced, where it
\* stands, by the array of the file, itself spliced; an include without an
\* argument at the end of the array goes away.  Defined when every argument
\* is a string literal that names a file that can be read; fuel bounds the
\* nesting of the files.
RECURSIVE Spliced(_, _, _)
Spliced(instrs, fs, fuel) ==
    LET incs == {i \in 1..Len(instrs) : instrs[i].kind = "Include"}
    IN IF incs = {} \/ fuel = 0 THEN instrs
       ELSE LET i == Min(incs)
                before == SubSeq(instrs, 1, i - 1)
            IN IF i = Len(instrs) THEN before
               ELSE before
                    \o Spliced(here(Parse(fs[instrs[i + 1].arg].source)), fs,
                               fuel - 1)
                    \o Spliced(SubSeq(instrs, i + 2, Len(instrs)), fs, fuel)

\* includes(&mut program, 0) has returned Ok and collect_macros has not begun
IncludesDone == pc = "collect" /\ ip = 0 /\ collect = CollectStart

\* C13: include resolution puts the instructions of every included file where
\* its include pair stood: what preceded the pair precedes them, what followed
\* the pair follows them.
C13_IncludedInPlace ==
    IncludesDone =>
        instructions = Spliced(here(origin), files, Cardinality(DOMAIN files) + 1)

\* the files that the include pairs of an array name
PathsOf(instrs) ==
    {instrs[i + 1].arg :
        i \in {j \in 1..(Len(instrs) - 1) :
                  instrs[j].kind = "Include" /\ instrs[j + 1].kind = "PushStr"}}
\* the files that file f includes (none when f is missing or cannot be read)
FilePaths(fs, f) ==
    IF f \in DOMAIN fs /\ fs[f].readable
    THEN PathsOf(here(Parse(fs[f].source)))
    ELSE {}
\* the files reached from the files of frontier by includes
RECURSIVE FilesFrom(_, _, _)
FilesFrom(fs, frontier, seen) ==
    LET next == UNION {FilePaths(fs, f) : f \in frontier} \ seen
    IN IF next = {} THEN seen ELSE FilesFrom(fs, next, seen \cup next)
\* the files the main program includes, directly or through other files
IncludedFiles ==
    LET direct == PathsOf(here(origin))
    IN direct \cup FilesFrom(files, direct, direct)
\* the include relation of the program holds a cycle: a file it includes
\* includes itself, directly or through other files
IncludeCycle ==
    \E f \in IncludedFiles : f \in FilesFrom(files, {f}, {})

----------------------------------------------------------------------------
(* The order of the stages of process, checked under Spec *)

\* the place of a stage in the pipeline; ips runs between expand and jumps
StageNo(p) ==
    CASE p = "here" -> 1
      [] p = "includes" -> 2
      [] p = "collect" -> 3
      [] p = "expand" -> 4
      [] p = "jumps" -> 5
      [] p = "done" -> 6

\* collect_macros, expand_macros and jumps have not run
NothingCollected ==
    /\ macros = <<>>
    /\ collect = CollectStart
    /\ passes = 0
NothingExpanded == passes = 0 /\ expand = ExpandStart /\ expanded = {}
NothingResolved == runs = 0 /\ jump_stack = <<>> /\ elifs = <<>>

----------------------------------------------------------------------------
(* The errors of include resolution, checked under Spec *)

\* C16: the three failures of an include (file missing, file unreadable,
\* argument not a string literal) have three different error kinds: a missing
\* file gives IncludeNotFound, an argument that is no string literal gives
\* InvalidInclude, and an unreadable file gives a kind that is neither.
C16_IncludeFailuresDistinct ==
    /\ cause = "missing" => result = "IncludeNotFound"
    /\ cause = "not_literal" => result = "InvalidInclude"
    /\ cause = "unreadable" => result \notin {"IncludeNotFound", "InvalidInclude"}

----------------------------------------------------------------------------
(* The errors of macro collection, checked under Spec *)

\* the kinds of PreprocessorError
PreprocessorErrors ==
    {"InvalidInclude", "InvalidFilename", "IncludeNotFound",
     "TooManyMacroExpansions", "RecursiveInclude", "UnexpectedKeyword",
     "UnexpectedMacroEnd", "UnclosedBlock"}

\* C17: a do or an end that collect_macros meets while no frame is open makes
\* it fail with UnexpectedKeyword.
C17_CollectRejectsFramelessKeyword ==
    [][(/\ pc = "collect"
        /\ ip < Len(instructions)
        /\ instructions[ip + 1].kind \in {"Do", "End"}
        /\ collect.macro_stack = <<>>)
       => (pc' = "done" /\ result' = "UnexpectedKeyword")]_vars

\* a definition `macro <name>` of the array has no closing end, and no other
\* macro keyword stands behind it
MacroLeftOpen(instrs) ==
    LET lev == MacroLevels(instrs)
    IN \E p \in MacroDefinitions(instrs, lev) :
        /\ DefinitionEnds(instrs, lev, p) = {}
        /\ \A r \in (p + 1)..(Len(instrs) - 1) : instrs[r + 1].kind # "Macro"

\* C18: a program whose array ends inside a macro definition makes process
\* fail with a preprocessor error.
C18_OpenMacroFails ==
    (/\ pc = "done"
     /\ \A i \in DOMAIN origin : origin[i].kind # "Include"
     /\ MacroLeftOpen(origin)) =>
        result \in PreprocessorErrors

----------------------------------------------------------------------------
(* The verdict of typecheck on the last stack and on the arms of a branch *)

\* the loop of typecheck has run to the end of the array and the check
\* behind it has given its verdict
WalkedToEnd == pc = "done" /\ ip = Len(instructions)
ExitStacks == {<<>>, <<"Int">>}

\* C19: typecheck returns Ok only if the stack at the end of the program is
\* empty or holds exactly one Int; with any other stack at the end of the
\* program it fails with InvalidStack.
C19_FinalStackEmptyOrOneInt ==
    /\ result = "Ok" => WalkedToEnd /\ type_stack \in ExitStacks
    /\ WalkedToEnd =>
           IF type_stack \in ExitStacks THEN result = "Ok"
           ELSE result = "InvalidStack"

C19_Witness ==
    /\ WalkedToEnd
    /\ Len(type_stack) = 1
    /\ type_stack[1] # "Int"
    /\ result = "InvalidStack"

\* the if/else/end chains an End has closed: opened by If, last arm an Else
ClosedChains ==
    {b \in arms.closed : b.opener = "If" /\ b.op_type = "Else"}
ArmsAgree(b) == \A i, j \in 1..Len(b.exits) : b.exits[i] = b.exits[j]

----------------------------------------------------------------------------
(* The rules of typecheck for Do, End, Add and stray instructions *)

\* the walk stands on a Do whose snapshot a While (an If) has pushed, with a
\* Bool on top of the stack
DoBehind(kw) ==
    /\ TypecheckAt({"Do"})
    /\ snapshots # <<>>
    /\ Top(snapshots).op_type = kw
    /\ type_stack # <<>>
    /\ Top(type_stack) = "Bool"

\* the walk ended on a Do behind kw, with the error kind
DoFailed(kw, kind) ==
    /\ pc = "done"
    /\ result = kind
    /\ ip < Len(instructions)
    /\ instructions[ip + 1].kind = "Do"
    /\ snapshots # <<>>
    /\ Top(snapshots).op_type = kw

\* C21: at a Do behind a While, typecheck compares the stack as it is before
\* the condition value is popped with the stack captured at the While, and
\* fails with InvalidLoop exactly when the two differ.
C21_LoopStackComparedBeforePop ==
    [][DoBehind("While") =>
           (result' = "InvalidLoop" <=> type_stack # Top(snapshots).stack)]_vars

\* C21, amended: at a Do behind a While, typecheck compares the stack as it
\* is after the condition value is popped with the stack captured at the
\* While, and fails with InvalidLoop exactly when the two differ.
C21_LoopStackComparedAfterPop ==
    [][DoBehind("While") =>
           /\ result' = "InvalidLoop" <=>
                  Pop(type_stack) # Top(snapshots).stack
           /\ result' \in {"none", "InvalidLoop"}]_vars

C21_Witness ==
    /\ DoFailed("While", "InvalidLoop")
    /\ type_stack # <<>>
    /\ Top(type_stack) = "Bool"
    /\ Pop(type_stack) # Top(snapshots).stack

\* C22: at every Do, behind an If as behind a While, typecheck pops the top
\* of the stack and goes on only if it is a Bool: StackUnderflow on an empty
\* stack, InvalidTypeForOp for an Int, a Char or a Ptr.
C22_DoRequiresBool ==
    [][TypecheckAt({"Do"}) =>
           IF type_stack = <<>> THEN result' = "StackUnderflow"
           ELSE IF Top(type_stack) # "Bool" THEN result' = "InvalidTypeForOp"
           ELSE result' = "none" => type_stack' = Pop(type_stack)]_vars

C22_Witness ==
    /\ DoFailed("If", "InvalidTypeForOp")
    /\ type_stack # <<>>
    /\ Top(type_stack) = "Char"

\* the walk over `if 1 do 2 print else 3 print end` has ended
BranchOnIntChecked == origin = Parse(BranchOnInt) /\ pc = "done"

\* C23: typecheck accepts the program of `if 1 do 2 print else 3 print end`.
C23_BranchOnIntAccepted == BranchOnIntChecked => result = "Ok"

\* C23, amended: typecheck rejects the program of
\* `if 1 do 2 print else 3 print end` with InvalidTypeForOp at its Do, whose
\* condition is an Int and not a Bool.
C23_BranchOnIntRejected ==
    BranchOnIntChecked =>
        /\ result = "InvalidTypeForOp"
        /\ ip = 2
        /\ type_stack = <<"Int">>

C23_Witness == BranchOnIntChecked /\ DoFailed("If", "InvalidTypeForOp")

\* the walk stands on the End of an if without else
EndOfBranchOnly ==
    /\ TypecheckAt({"End"})
    /\ snapshots # <<>>
    /\ Top(snapshots).op_type = "Do"
    /\ Top(arms.open).opener = "If"

\* C24: the snapshot of the Do of an if is the stack behind the popped
\* condition, and an if without else whose body reaches the End with a
\* stack other than that snapshot is rejected with InvalidEnd.
C24_BranchOnlyKeepsStack ==
    [][/\ DoBehind("If") /\ result' = "none" =>
              Top(snapshots') = Snapshot(Pop(type_stack), "Do")
       /\ EndOfBranchOnly /\ type_stack # Top(snapshots).stack =>
              result' = "InvalidEnd"
       /\ EndOfBranchOnly /\ type_stack = Top(snapshots).stack =>
              result' = "none"]_vars

C24_Witness ==
    /\ pc = "done"
    /\ result = "InvalidEnd"
    /\ snapshots # <<>>
    /\ Top(snapshots).op_type = "Do"
    /\ \E b \in arms.closed :
          b.end = ip /\ b.opener = "If" /\ b.op_type = "Do"
    /\ type_stack # Top(snapshots).stack

\* the type the claim gives to the sum of a and b; "none" when it is an error
WidestOperand(a, b) ==
    IF a = "Ptr" /\ b = "Ptr" THEN "none"
    ELSE IF "Ptr" \in {a, b} THEN "Ptr"
    ELSE IF "Char" \in {a, b} THEN "Char"
    ELSE "Int"

\* C25: Add of two operands yields Ptr if either is a Ptr (InvalidTypeForOp
\* if both are), Char if either is a Char and neither a Ptr, else Int,
\* whatever the order of the operands.
C25_AddYieldsWidestOperand ==
    [][TypecheckAt({"Op"}) /\ instructions[ip + 1].arg = "Add"
            /\ Len(type_stack) >= 2 =>
           LET a == type_stack[Len(type_stack)]
               b == type_stack[Len(type_stack) - 1]
               sum == WidestOperand(a, b)
           IN IF sum = "none" THEN result' = "InvalidTypeForOp"
              ELSE /\ result' = "none"
                   /\ type_stack' = Append(Pop(Pop(type_stack)), sum)]_vars

\* C26: on a Macro keyword, an Include keyword or a Name, typecheck returns
\* the error MacroInCode or IncludeInCode at that instruction; it neither
\* goes on behind it nor panics.
C26_StrayInstructionIsAnError ==
    [][TypecheckAt({"Macro", "Include", "Name"}) =>
           /\ result' \in {"MacroInCode", "IncludeInCode"}
           /\ ip' = ip]_vars

----------------------------------------------------------------------------
(* The instruction pointers process leaves in the array *)

\* the kinds of keyword that own a self_ip slot
SelfKinds == {"While", "Elif", "Else", "End"}

\* every ip, and every self_ip slot, of the array is the index it stands at
PointersAreIndexes(instrs) ==
    \A i \in DOMAIN instrs :
        /\ instrs[i].ip = i - 1
        /\ instrs[i].kind \in SelfKinds => instrs[i].self_ip = i - 1

\* C30: when process returns Ok, the ip of every instruction and the
\* self_ip slot of every keyword equal the index of the instruction in the
\* final array, and no step of jumps changes an ip that ips has assigned.
C30_PointersAreFinalIndexes ==
    [][/\ ProcessOk' => PointersAreIndexes(instructions')
       /\ pc = "jumps" =>
              /\ Len(instructions') = Len(instructions)
              /\ \A i \in DOMAIN instructions :
                     /\ instructions[i].ip = i - 1
                     /\ instructions'[i].ip = instructions[i].ip]_vars

C30_Witness ==
    /\ ProcessOk
    /\ Len(instructions) >= 3
    /\ \E i \in DOMAIN instructions : instructions[i].kind = "End"
    /\ \E i \in DOMAIN instructions : instructions[i].kind = "While"
    /\ Len(origin) > Len(instructions)

----------------------------------------------------------------------------
(* The interpreter on the programs the pipeline hands to it *)

\* the number of values an instruction takes from the stack
Consumes(inst) ==
    CASE inst.kind = "Syscall" -> SyscallArity(inst.arg)
      [] inst.kind = "Do" -> 1
      [] inst.kind = "Intrinsic" ->
             CASE inst.arg \in {"Print", "Dup", "Drop"} -> 1
               [] inst.arg \in {"Swap", "Over", "Drop2", "Dup2"} -> 2
               [] OTHER -> 0
      [] inst.kind = "Op" ->
             IF inst.arg \in {"BitwiseNot", "Load", "Load64"} THEN 1 ELSE 2
      [] OTHER -> 0

\* simulate is about to run an instruction of a program that process and
\* typecheck have both accepted
Accepted == stage = "simulate" /\ ~unsafe /\ pc = "simulate"

\* C27: for every program that process and typecheck both accept, the
\* interpreter never pops from an empty stack, whatever the conditions turn
\* out to be: at each instruction it executes, the runtime stack holds as many
\* values as the symbolic stack typecheck held on entering that instruction.
C27_RuntimeDepthIsSymbolicDepth ==
    (Accepted /\ state.ip < Len(instructions)) =>
        /\ Len(state.stack) = Len(stacks[state.ip + 1])
        /\ Len(state.stack) >= Consumes(instructions[state.ip + 1])

\* sim_instruction runs on an instruction that takes more values than the
\* stack holds
SimShort ==
    /\ pc = "simulate"
    /\ state.ip < Len(instructions)
    /\ Len(state.stack) < Consumes(instructions[state.ip + 1])

\* C28: every instruction that consumes operands (drop and 2drop included),
\* executed with fewer values on the runtime stack than it consumes, returns
\* RuntimeError StackUnderflow and does not advance.
C28_UnderflowCheckedByEveryInstruction ==
    [][SimShort => /\ result' = "StackUnderflow"
                   /\ state'.ip = state.ip]_vars

\* the kinds and payloads of the instructions, in order
Payloads(instrs) == [i \in DOMAIN instrs |-> <<instrs[i].kind, instrs[i].arg>>]

FromAddAndPrint == origin = Parse(AddAndPrint)

\* C29: for the source `1 2 + print`, macro expansion and jump resolution
\* leave the instruction sequence unchanged, and typecheck steps the symbolic
\* stack through [], [Int], [Int, Int], [Int], [] and accepts.
C29_AddAndPrintUnchangedAndAccepted ==
    [][FromAddAndPrint =>
          /\ Payloads(instructions') = Payloads(origin)
          /\ pc = "jumps" => instructions' = instructions
          /\ (stage' = "typecheck" /\ pc' = "done") =>
                /\ result' = "Ok"
                /\ Append(stacks', type_stack') =
                       << <<>>, <<"Int">>, <<"Int", "Int">>, <<"Int">>, <<>> >>]_vars

C29_Witness ==
    /\ FromAddAndPrint
    /\ stage = "typecheck"
    /\ pc = "done"
    /\ result = "Ok"
    /\ Len(stacks) = 4
    /\ expand.new_instructions = origin

----------------------------------------------------------------------------
(* The snapshots of typecheck at Else and End *)

\* typecheck is at an Else whose arm a Do has opened: the Else goes on
ElseBehindDo ==
    /\ TypecheckAt({"Else"})
    /\ snapshots # <<>>
    /\ Top(snapshots).op_type = "Do"

\* the If or While that opened the block instruction e lies in
BlockOpener(e) ==
    Max({o \in 0..(e - 1) : Kind(o) \in {"If", "While"} /\ Level(o) = Level(e) - 1})

----------------------------------------------------------------------------
(* The slots an End of jumps patches *)

\* jumps is at an End and the frame on top of jump_stack is of kind t
EndPops(t) ==
    /\ JumpsAt("End")
    /\ jump_stack # <<>>
    /\ Top(jump_stack).t = t

\* the slot of the frame the End pops holds the position of the End
DoSlotPatched ==
    /\ result' = "none"
    /\ Deref(instructions', Top(jump_stack).slot) = ip

\* every slot of elifs holds the position of the End, and the list is empty
ElifsPatched ==
    /\ \A k \in DOMAIN elifs : Deref(instructions', elifs[k]) = ip
    /\ elifs' = <<>>

\* C32: when an End pops an ifdo frame or an elifdo frame, jumps sets the
\* pending slot of the frame's Do to the position of the End, then sets every
\* slot accumulated in elifs to the position of the End and empties the
\* list, for ifdo exactly as for elifdo.
C32_EndPatchesDoAndElifs ==
    [][(EndPops("ifdo") \/ EndPops("elifdo")) =>
           DoSlotPatched /\ ElifsPatched]_vars

\* C32, amended: when an End pops an elifdo frame, jumps sets the pending
\* slot of the frame's Do to the position of the End, then sets every slot
\* accumulated in elifs to the position of the End and empties the list; when
\* it pops an ifdo frame it sets the slot of the Do only and leaves the list
\* and the slots in it as they are.
C32_EndPatchesElifsBehindElifOnly ==
    [][/\ EndPops("elifdo") => DoSlotPatched /\ ElifsPatched
       /\ EndPops("ifdo") =>
              /\ DoSlotPatched
              /\ elifs' = elifs
              /\ \A k \in DOMAIN elifs :
                     Deref(instructions', elifs[k]) = Deref(instructions, elifs[k])]_vars

\* an End has just closed an if without arms that lies in the arm of an Elif:
\* the slot of the Elif is still pending
C32_Witness ==
    /\ pc = "jumps"
    /\ ip >= 1
    /\ Kind(ip - 1) = "End"
    /\ Kind(BlockOpener(ip - 1)) = "If"
    /\ elifs # <<>>
    /\ \E d \in 0..(ip - 1) : Kind(d) = "Do" /\ instructions[d + 1].end_ip = ip - 1
    /\ \A k \in DOMAIN elifs : Deref(instructions, elifs[k]) # ip - 1

\* typecheck is at the End of a while loop: the block was opened by a While
\* and its Do made the snapshot on top
EndOfLoop ==
    /\ TypecheckAt({"End"})
    /\ snapshots # <<>>
    /\ Top(snapshots).op_type = "Do"
    /\ Kind(BlockOpener(ip)) = "While"

\* C33: in a program typecheck accepts, the stack on reaching the End of a
\* while loop equals the stack that was live at the While of the loop, and so
\* does the stack behind the popped condition and the stack behind the End.
C33_LoopEndsWithStackOfWhile ==
    [][(EndOfLoop /\ result' = "none") =>
           /\ type_stack = stacks[BlockOpener(ip) + 1]
           /\ Pop(stacks[LoopDo(BlockOpener(ip)) + 1]) = stacks[BlockOpener(ip) + 1]
           /\ type_stack' = type_stack]_vars

\* the walk has just passed the End of a loop with a body, on a stack that
\* holds a value
C33_Witness ==
    /\ pc = "typecheck"
    /\ ip >= 3
    /\ Kind(ip - 1) = "End"
    /\ Kind(BlockOpener(ip - 1)) = "While"
    /\ Kind(ip - 2) # "Do"
    /\ \E b \in arms.closed :
           b.opener = "While" /\ b.op_type = "Do" /\ b.end = ip - 1
    /\ type_stack = stacks[BlockOpener(ip - 1) + 1]

----------------------------------------------------------------------------
(* The interpreter on resolved chains and loops *)

\* simulate runs the keyword at state.ip, which lies in a block that kw
\* opened and an End closes, and goes on
SimulateIn(kinds, kw) ==
    /\ pc = "simulate"
    /\ state.ip < Len(instructions)
    /\ Kind(state.ip) \in kinds
    /\ Level(state.ip) >= 1
    /\ Kind(BlockOpener(state.ip)) = kw
    /\ EndsAfter(state.ip) # {}
    /\ result' = "none"

\* the Elif, Else or End that ends the arm of the Do at d
ArmEnd(d) ==
    Min({q \in (d + 1)..Last :
            Kind(q) \in {"Elif", "Else", "End"} /\ Level(q) = Level(d)})

\* C34: in every resolved if/elif*/else/end chain, nested ones included, the
\* interpreter executes the body of exactly one arm: a Do that pops 0 goes to
\* the condition of the next arm, to the else body or behind the End of the
\* chain, a Do that pops another value enters its body, and the Elif or Else
\* that ends a body goes to the End of its own chain.
C34_OneArmThenOwnEnd ==
    [][/\ SimulateIn({"Do"}, "If") =>
              state'.ip \in {state.ip + 1, ArmEnd(state.ip) + 1}
       /\ SimulateIn({"Elif", "Else"}, "If") =>
              state'.ip = ClosingEnd(state.ip)]_vars

\* simulate runs the End of a loop: While opened the block it closes
SimulateEndOfLoop ==
    /\ pc = "simulate"
    /\ state.ip < Len(instructions)
    /\ Kind(state.ip) = "End"
    /\ Level(state.ip) >= 1
    /\ Kind(BlockOpener(state.ip)) = "While"

\* C35: in every resolved while .. do .. end, the interpreter goes from the
\* End of the loop back to its While, so that the condition is evaluated
\* again before each iteration, and a Do that pops 0 goes to the instruction
\* directly behind the End of the loop; a Do that pops another value enters
\* the body.
C35_LoopReturnsToWhileAndLeavesBehindEnd ==
    [][/\ SimulateEndOfLoop =>
              /\ result' = "none"
              /\ state'.ip = BlockOpener(state.ip)
              /\ state'.stack = state.stack
       /\ SimulateIn({"Do"}, "While") =>
              state'.ip \in {state.ip + 1, ClosingEnd(state.ip) + 1}]_vars

\* simulate has left a loop that is the whole program, behind its End, after
\* iterations whose bodies left values on the stack
C35_Witness ==
    /\ stage = "simulate"
    /\ pc = "done"
    /\ result = "Ok"
    /\ Len(instructions) >= 4
    /\ Kind(0) = "While"
    /\ Kind(Last) = "End"
    /\ Level(Last) = 1
    /\ BlockOpener(Last) = 0
    /\ state.ip = Last + 1
    /\ Len(state.stack) >= 2

----------------------------------------------------------------------------
(* What typecheck leaves behind, and what jumps leaves alone *)

\* C36: whenever typecheck returns Ok its snapshots are empty, every
\* snapshot pushed at a While or an If having been popped by its End: no
\* program with a block left open passes process and typecheck.
C36_AcceptedLeavesNoSnapshot ==
    (stage = "typecheck" /\ pc = "done" /\ result = "Ok") =>
        /\ snapshots = <<>>
        /\ jump_stack = <<>>

ElifFree == \A i \in DOMAIN instructions : instructions[i].kind # "Elif"

\* C37: on an array without Elif for which jumps returned Ok, the snapshot
\* typecheck pops at an End is tagged Do or Else: the End never reaches the
\* arm unreachable!().
C37_EndPopsDoOrElse ==
    [][(stage = "typecheck" /\ ElifFree /\ TypecheckAt({"End"})) =>
           /\ snapshots # <<>> => Top(snapshots).op_type \in {"Do", "Else"}
           /\ result' # "panic"]_vars

\* typecheck has popped a snapshot at the End of a block, on an array that
\* came from jumps
C37_Witness ==
    /\ stage = "typecheck"
    /\ ElifFree
    /\ ip >= 1
    /\ Kind(ip - 1) = "End"
    /\ \E b \in arms.closed : b.end = ip - 1 /\ b.op_type = "Else"

\* kind, payload and location of every instruction, in the order of the array
Fixed(instrs) ==
    [p \in DOMAIN instrs |->
        [kind |-> instrs[p].kind, arg |-> instrs[p].arg, loc |-> instrs[p].loc]]

\* C38: jumps writes ip fields and jump slots only: the number of
\* instructions, their order, their kinds, their payloads and their
\* locations are those of the array it was called on, while it runs and when
\* it has returned Ok or an error.
C38_JumpsKeepsAllButSlots ==
    pc \in {"jumps", "done"} => Fixed(instructions) = Fixed(origin)

\* jumps has written slots of an array that holds payloads and has returned
\* an error
C38_Witness ==
    /\ pc = "done"
    /\ result = "UnexpectedKeyword"
    /\ instructions # origin
    /\ \E p \in DOMAIN instructions : instructions[p].arg # ""
    /\ \E p \in DOMAIN instructions :
          /\ instructions[p].kind = "Do"
          /\ instructions[p].end_ip # origin[p].end_ip

============================================================================
